---------------------------- MODULE Spec2Model ----------------------------
(***************************************************************************)
(* ClipForge scoring service (src/services/scoring_svc): the highlight     *)
(* engine (signal extractors, candidate generators, event clustering,      *)
(* scoring model, segment selector, stream aggregator) and the job         *)
(* tracking of the enclosing FastAPI service.                              *)
(*                                                                         *)
(* Numbers.  Python floats are modelled as exact decimals held in          *)
(* integers: a time is a number of milliseconds (Sec per second), a score, *)
(* an intensity, a confidence or a signal sample is a number of millionths *)
(* (One per 1.0).  A product with a decimal constant c/10^k is             *)
(* (x * c) \div 10^k: a quotient is floored to the millionth, so a value   *)
(* may lie up to 2 millionths below the Python float.  Binary rounding of  *)
(* floats is not modelled; no input enumerated below puts a comparison     *)
(* within that distance of its threshold.                                  *)
(*                                                                         *)
(* Python values.  A JSON payload value is a record tagged with its Python *)
(* type (ty): none, bool, num, str, list, dict.  A str holds its           *)
(* characters as a sequence of one-character strings, so that lower(),     *)
(* strip(), slicing and the `in` substring test are computed, not assumed. *)
(* A dict d holds a function from its keys to its values.                  *)
(*                                                                         *)
(* Exceptions.  An operator that models a function which can raise returns *)
(* [exc, val]: exc = "" and the value, or the name of the exception.       *)
(***************************************************************************)
EXTENDS Integers, Sequences, FiniteSets, TLC

Sec == 10^3
One == 10^6

Max2(a, b) == IF a >= b THEN a ELSE b
Min2(a, b) == IF a <= b THEN a ELSE b
Abs(a) == IF a >= 0 THEN a ELSE -a

(* x * (num / den) for a decimal constant num/den, den > 0: floor division,
   on negative x as well (\div of TLA+ rounds down).  *)
Times(x, num, den) == (x * num) \div den

---------------------------------------------------------------------------
(* Python values *)

PyNone == [ty |-> "none"]
PyBool(b) == [ty |-> "bool", b |-> b]
PyNum(v) == [ty |-> "num", v |-> v]
PyStr(s) == [ty |-> "str", s |-> s]
PyList(items) == [ty |-> "list", items |-> items]
PyDict(d) == [ty |-> "dict", d |-> d]
EmptyDict == [ty |-> "dict", d |-> <<>>]

IsNone(v) == v.ty = "none"
IsNum(v) == v.ty = "num"
IsStr(v) == v.ty = "str"
IsList(v) == v.ty = "list"
IsDict(v) == v.ty = "dict"

(* bool(v) *)
Truthy(v) ==
    CASE v.ty = "none" -> FALSE
      [] v.ty = "bool" -> v.b
      [] v.ty = "num"  -> v.v # 0
      [] v.ty = "str"  -> Len(v.s) > 0
      [] v.ty = "list" -> Len(v.items) > 0
      [] v.ty = "dict" -> DOMAIN v.d # {}

(* k in d, d.get(k, default), for a dict d *)
HasKey(d, k) == k \in DOMAIN d.d
DictGet(d, k, default) == IF HasKey(d, k) THEN d.d[k] ELSE default

(* r.get(k, default) for one of the engine's own dicts, held as a TLA+ record *)
GetOr(r, k, default) == IF k \in DOMAIN r THEN r[k] ELSE default

Ok(v) == [exc |-> "", val |-> v]
Raise(e) == [exc |-> e, val |-> <<>>]
Raised(r) == r.exc # ""

(* sum of a sequence of integers *)
RECURSIVE SumSeq(_)
SumSeq(s) == IF Len(s) = 0 THEN 0 ELSE Head(s) + SumSeq(Tail(s))

(* concatenation of a sequence of sequences *)
RECURSIVE Flatten(_)
Flatten(ss) == IF Len(ss) = 0 THEN <<>> ELSE Head(ss) \o Flatten(Tail(ss))

---------------------------------------------------------------------------
(* str operations *)

UpperChars == <<"A","B","C","D","E","F","G","H","I","J","K","L","M",
                "N","O","P","Q","R","S","T","U","V","W","X","Y","Z">>
LowerChars == <<"a","b","c","d","e","f","g","h","i","j","k","l","m",
                "n","o","p","q","r","s","t","u","v","w","x","y","z">>

LowerChar(c) ==
    IF \E i \in 1..Len(UpperChars) : UpperChars[i] = c
    THEN LowerChars[CHOOSE i \in 1..Len(UpperChars) : UpperChars[i] = c]
    ELSE c

(* s.lower() *)
Lower(s) == [i \in 1..Len(s) |-> LowerChar(s[i])]

IsSpace(c) == c \in {" ", "\t", "\n"}

(* s.strip() *)
Strip(s) ==
    LET keep == {i \in 1..Len(s) : ~IsSpace(s[i])}
    IN  IF keep = {} THEN <<>>
        ELSE LET first == CHOOSE i \in keep : \A j \in keep : i <= j
                 last  == CHOOSE i \in keep : \A j \in keep : i >= j
             IN  SubSeq(s, first, last)

(* s[:n] *)
Take(s, n) == SubSeq(s, 1, Min2(n, Len(s)))

(* needle in hay *)
Contains(hay, needle) ==
    \E i \in 1..(Len(hay) - Len(needle) + 1) :
        SubSeq(hay, i, i + Len(needle) - 1) = needle

(* sep.join(parts) *)
RECURSIVE Join(_, _)
Join(sep, parts) ==
    IF Len(parts) = 0 THEN <<>>
    ELSE IF Len(parts) = 1 THEN parts[1]
    ELSE parts[1] \o sep \o Join(sep, Tail(parts))

(* CountIn with `text.startswith(keyword)` in place of `keyword in text` *)
CountIn_startswith(kws, text) ==
    Cardinality({i \in 1..Len(kws) : Take(text, Len(kws[i])) = kws[i]})

(* the number of keywords of kws that occur in text *)
CountIn(kws, text) == Cardinality({i \in 1..Len(kws) : Contains(text, kws[i])})
AnyIn(kws, text) == \E i \in 1..Len(kws) : Contains(text, kws[i])

intensity_keywords ==
  << <<"w","o","w">>,
     <<"a","m","a","z","i","n","g">>,
     <<"i","n","c","r","e","d","i","b","l","e">>,
     <<"p","e","r","f","e","c","t">>,
     <<"i","n","s","a","n","e">>,
     <<"u","n","b","e","l","i","e","v","a","b","l","e">>,
     <<"c","l","u","t","c","h">>,
     <<"e","p","i","c">>,
     <<"a","w","e","s","o","m","e">>,
     <<"b","r","i","l","l","i","a","n","t">>,
     <<"o","u","t","s","t","a","n","d","i","n","g">> >>

excitement_keywords ==
  << <<"o","h"," ","m","y"," ","g","o","d">>,
     <<"h","o","l","y">>,
     <<"d","a","m","n">>,
     <<"s","h","i","t">>,
     <<"f","u","c","k">>,
     <<"y","e","s","!">>,
     <<"n","o"," ","w","a","y">>,
     <<"a","r","e"," ","y","o","u"," ","k","i","d","d","i","n","g">>,
     <<"y","o","u","'","v","e"," ","g","o","t"," ","t","o"," ","b","e">> >>

fusion_quality_words ==
  << <<"a","m","a","z","i","n","g">>,
     <<"i","n","c","r","e","d","i","b","l","e">>,
     <<"w","o","w">>,
     <<"p","e","r","f","e","c","t">>,
     <<"i","n","s","a","n","e">> >>

context_keywords ==
  << <<"c","l","i","p">>,
     <<"h","i","g","h","l","i","g","h","t">>,
     <<"a","m","a","z","i","n","g">>,
     <<"i","n","c","r","e","d","i","b","l","e">>,
     <<"p","e","r","f","e","c","t">> >>


---------------------------------------------------------------------------
(* Signal extractors (main.py).  A derived segment, peak or event is a
   record; start, end, duration, peak_time and change_time are times in
   milliseconds, text is a sequence of characters, and intensity and
   confidence hold the Python value taken from the payload.  *)

(* a Python list as built by the loop `for x in items: out.append(make(x))`:
   made[i] is make(items[i]), and raising[i] tells whether evaluating it
   raises *)
LoopResult(raising, made) ==
    IF \E i \in 1..Len(raising) : raising[i]
    THEN Raise("TypeError")
    ELSE Ok(made)

extract_transcription_text(transcription) ==
    IF ~Truthy(transcription) THEN Ok(PyStr(<<>>))
    ELSE IF IsStr(transcription) THEN Ok(transcription)
    ELSE IF IsDict(transcription) THEN
        LET text0 == DictGet(transcription, "text", PyStr(<<>>))
            segments == DictGet(transcription, "segments", PyNone)
            fromSegments == ~Truthy(text0) /\ Truthy(segments) /\ IsList(segments)
            withText == IF fromSegments
                        THEN SelectSeq(segments.items,
                                       LAMBDA seg : IsDict(seg) /\ Truthy(DictGet(seg, "text", PyNone)))
                        ELSE <<>>
            text1 == IF fromSegments
                     THEN PyStr(Join(<<" ">>, [i \in 1..Len(withText) |-> Strip(withText[i].d["text"].s)]))
                     ELSE text0
            text2 == IF ~Truthy(text1) /\ Truthy(DictGet(transcription, "transcript", PyNone))
                     THEN transcription.d["transcript"]
                     ELSE text1
        IN  IF \E i \in 1..Len(withText) : ~IsStr(withText[i].d["text"])
            THEN Raise("AttributeError")       \* seg["text"].strip() on a non-str
            ELSE Ok(text2)
    ELSE Ok(PyStr(<<>>))

extract_transcription_segments(transcription) ==
    IF ~Truthy(transcription) \/ ~IsDict(transcription) THEN Ok(<<>>)
    ELSE LET whisper_segments == DictGet(transcription, "segments", PyNone) IN
         IF ~Truthy(whisper_segments) \/ ~IsList(whisper_segments) THEN Ok(<<>>)
         ELSE LET kept == SelectSeq(whisper_segments.items,
                                    LAMBDA seg : IsDict(seg)
                                                 /\ \A k \in {"start", "end", "text"} : HasKey(seg, k))
              IN  IF \E i \in 1..Len(kept) :
                         ~(IsNum(kept[i].d["start"]) /\ IsNum(kept[i].d["end"]))
                  THEN Raise("TypeError")          \* seg["end"] - seg["start"]
                  ELSE IF \E i \in 1..Len(kept) : ~IsStr(kept[i].d["text"])
                  THEN Raise("AttributeError")     \* seg["text"].strip()
                  ELSE Ok([i \in 1..Len(kept) |->
                            [start      |-> kept[i].d["start"].v,
                             end        |-> kept[i].d["end"].v,
                             duration   |-> kept[i].d["end"].v - kept[i].d["start"].v,
                             text       |-> Strip(kept[i].d["text"].s),
                             confidence |-> DictGet(kept[i], "confidence", PyNum(One))]])

(* find_peaks_in_signal: signal_data is the list's items, samples being
   numbers or None (JSON null).  Python index i is TLA+ index i + 1.
   `current > prev_val and current > next_val and current > threshold` is
   evaluated left to right and stops at the first false operand; a
   comparison with a None operand raises TypeError.  *)
PeakTestRaises(signal_data, i) ==
    LET current  == signal_data[i + 1]
        prev_val == signal_data[i]
        next_val == signal_data[i + 2]
    IN  \/ ~IsNum(current)
        \/ ~IsNum(prev_val)
        \/ /\ current.v > prev_val.v
           /\ ~IsNum(next_val)

(* IsPeakAt with `>=` for the comparison with the two neighbours *)
IsPeakAt_not_strict(signal_data, i, threshold) ==
    LET current  == signal_data[i + 1]
        prev_val == signal_data[i]
        next_val == signal_data[i + 2]
    IN  current.v >= prev_val.v /\ current.v >= next_val.v /\ current.v > threshold

IsPeakAt(signal_data, i, threshold) ==
    LET current  == signal_data[i + 1]
        prev_val == signal_data[i]
        next_val == signal_data[i + 2]
    IN  current.v > prev_val.v /\ current.v > next_val.v /\ current.v > threshold

find_peaks_in_signal(signal_data, duration, threshold) ==
    IF Len(signal_data) < 3 THEN Ok(<<>>)
    ELSE LET n == Len(signal_data)
             idx == 1..(n - 2)
             \* time_step = duration / len(signal_data); peak_time = i * time_step
             peak_time(i) == (i * duration) \div n
             RECURSIVE collect(_)
             collect(i) ==
                 IF i > n - 2 THEN <<>>
                 ELSE (IF IsPeakAt(signal_data, i, threshold)
                       THEN << [start     |-> Max2(0, peak_time(i) - 5 * Sec),
                                end       |-> Min2(duration, peak_time(i) + 10 * Sec),
                                peak_time |-> peak_time(i),
                                intensity |-> signal_data[i + 1]] >>
                       ELSE <<>>) \o collect(i + 1)
         IN  IF \E i \in idx : /\ PeakTestRaises(signal_data, i)
                               /\ \A j \in idx : j < i => ~PeakTestRaises(signal_data, j)
             THEN Raise("TypeError")
             ELSE Ok(collect(1))

(* floor of the square root of x >= 0 *)
RECURSIVE ISqrtBetween(_, _, _)
ISqrtBetween(x, lo, hi) ==
    IF lo >= hi THEN lo
    ELSE LET mid == (lo + hi + 1) \div 2
         IN  IF mid * mid <= x THEN ISqrtBetween(x, mid, hi)
             ELSE ISqrtBetween(x, lo, mid - 1)
ISqrt(x) == ISqrtBetween(x, 0, Min2(x, 46340))

(* analyze_spectral_changes with the window of find_peaks_in_signal, 5 seconds
   before and 10 seconds after *)
analyze_spectral_changes_peak_window(mfcc_data, duration) ==
    IF IsNum(mfcc_data) \/ mfcc_data.ty = "bool" THEN Raise("TypeError")   \* len(mfcc_data)
    ELSE IF ~IsList(mfcc_data) \/ Len(mfcc_data.items) < 2 THEN Ok(<<>>)
    ELSE LET frames == mfcc_data.items
             n == Len(frames)
             change_time(i) == (i * duration) \div n
             sq(a, b) == ((a.v - b.v) \div 1000) * ((a.v - b.v) \div 1000)
             diff(i) ==
                 LET cur == frames[i + 1].items
                     prv == frames[i].items
                     m == Min2(Len(cur), Len(prv))
                 IN  SumSeq([k \in 1..m |->
                               IF IsNum(cur[k]) /\ IsNum(prv[k]) THEN sq(cur[k], prv[k]) ELSE 0])
             flux(i) == ISqrt(diff(i))
             RECURSIVE collect(_)
             collect(i) ==
                 IF i > n - 1 THEN <<>>
                 ELSE (IF IsList(frames[i + 1]) /\ IsList(frames[i]) /\ diff(i) > 4 * One
                       THEN << [start       |-> Max2(0, change_time(i) - 5 * Sec),
                                end         |-> Min2(duration, change_time(i) + 10 * Sec),
                                change_time |-> change_time(i),
                                intensity   |-> PyNum(Min2(flux(i) * 200, One))] >>
                       ELSE <<>>) \o collect(i + 1)
         IN  Ok(collect(1))

(* analyze_spectral_changes: mfcc_data is the Python value under "mfcc", truthy.
   MFCC coefficients are held in millionths; a squared difference is taken
   in thousandths, so diff is in millionths and flux in thousandths.  *)
analyze_spectral_changes(mfcc_data, duration) ==
    IF IsNum(mfcc_data) \/ mfcc_data.ty = "bool" THEN Raise("TypeError")   \* len(mfcc_data)
    ELSE IF ~IsList(mfcc_data) \/ Len(mfcc_data.items) < 2 THEN Ok(<<>>)
    ELSE LET frames == mfcc_data.items
             n == Len(frames)
             change_time(i) == (i * duration) \div n
             sq(a, b) == ((a.v - b.v) \div 1000) * ((a.v - b.v) \div 1000)
             diff(i) ==
                 LET cur == frames[i + 1].items
                     prv == frames[i].items
                     m == Min2(Len(cur), Len(prv))
                 IN  SumSeq([k \in 1..m |->
                               IF IsNum(cur[k]) /\ IsNum(prv[k]) THEN sq(cur[k], prv[k]) ELSE 0])
             flux(i) == ISqrt(diff(i))
             RECURSIVE collect(_)
             collect(i) ==
                 IF i > n - 1 THEN <<>>
                 ELSE (IF IsList(frames[i + 1]) /\ IsList(frames[i]) /\ diff(i) > 4 * One
                       THEN << [start       |-> Max2(0, change_time(i) - 3 * Sec),
                                end         |-> Min2(duration, change_time(i) + 7 * Sec),
                                change_time |-> change_time(i),
                                intensity   |-> PyNum(Min2(flux(i) * 200, One))] >>
                       ELSE <<>>) \o collect(i + 1)
         IN  Ok(collect(1))

WithType(items, type) ==
    [i \in 1..Len(items) |-> [k \in DOMAIN items[i] \cup {"type"} |->
                                 IF k = "type" THEN type ELSE items[i][k]]]

analyze_audio_peaks(audio_features, duration) ==
    IF ~Truthy(audio_features) \/ ~IsDict(audio_features) THEN Ok(<<>>)
    ELSE LET energy_data == DictGet(audio_features, "energy", PyNone)
             volume_data == DictGet(audio_features, "volume", PyNone)
             spectral == DictGet(audio_features, "spectral_features", PyNone)
             energy_peaks ==
                 IF Truthy(energy_data) /\ IsList(energy_data)
                 THEN find_peaks_in_signal(energy_data.items, duration, 700000)
                 ELSE Ok(<<>>)
             volume_peaks ==
                 IF Truthy(volume_data) /\ IsList(volume_data)
                 THEN find_peaks_in_signal(volume_data.items, duration, 700000)
                 ELSE Ok(<<>>)
             mfcc_peaks ==
                 IF Truthy(spectral) /\ IsDict(spectral) /\ Truthy(DictGet(spectral, "mfcc", PyNone))
                 THEN analyze_spectral_changes(spectral.d["mfcc"], duration)
                 ELSE Ok(<<>>)
         IN  IF Raised(energy_peaks) THEN energy_peaks
             ELSE IF Raised(volume_peaks) THEN volume_peaks
             ELSE IF Raised(mfcc_peaks) THEN mfcc_peaks
             ELSE Ok(WithType(energy_peaks.val, "energy")
                     \o WithType(volume_peaks.val, "volume")
                     \o WithType(mfcc_peaks.val, "spectral"))

analyze_vision_events(vision_data, duration) ==
    IF ~Truthy(vision_data) \/ ~IsDict(vision_data) THEN Ok(<<>>)
    ELSE LET scene_changes == DictGet(vision_data, "scene_changes", PyNone)
             motion == DictGet(vision_data, "motion_intensity", PyNone)
             face_data == DictGet(vision_data, "face_tracking", PyNone)
             stamped(v) == IF Truthy(v) /\ IsList(v)
                           THEN SelectSeq(v.items, LAMBDA e : IsDict(e) /\ HasKey(e, "timestamp"))
                           ELSE <<>>
             scene_events ==
                 LET changes == stamped(scene_changes)
                     made(change) ==
                         [start     |-> Max2(0, change.d["timestamp"].v - 2 * Sec),
                          end       |-> Min2(duration, change.d["timestamp"].v + 3 * Sec),
                          type      |-> "scene_change",
                          intensity |-> DictGet(change, "intensity", PyNum(500000))]
                 IN  LoopResult([i \in 1..Len(changes) |-> ~IsNum(changes[i].d["timestamp"])],
                                [i \in 1..Len(changes) |-> made(changes[i])])
             motion_events ==
                 IF Truthy(motion) /\ IsList(motion)
                 THEN find_peaks_in_signal(motion.items, duration, 600000)
                 ELSE Ok(<<>>)
             face_events ==
                 LET faces == stamped(face_data)
                     made(face_event) ==
                         [start      |-> Max2(0, face_event.d["timestamp"].v - 1 * Sec),
                          end        |-> Min2(duration, face_event.d["timestamp"].v + 4 * Sec),
                          type       |-> "face_detected",
                          confidence |-> DictGet(face_event, "confidence", PyNum(500000))]
                 IN  LoopResult([i \in 1..Len(faces) |-> ~IsNum(faces[i].d["timestamp"])],
                                [i \in 1..Len(faces) |-> made(faces[i])])
         IN  IF Raised(scene_events) THEN scene_events
             ELSE IF Raised(motion_events) THEN motion_events
             ELSE IF Raised(face_events) THEN face_events
             ELSE Ok(scene_events.val \o WithType(motion_events.val, "motion") \o face_events.val)

---------------------------------------------------------------------------
(* Candidate generators (segment_creators.py).  A candidate is a record with
   the keys the generator sets; source_intensity, source_excitement and
   fusion_score are in millionths, reason holds the parts the f-string
   formats.  *)

(* f"{x:.2f}": hundredths, rounded *)
Format2f(x) == (x + 5000) \div 10000

(* create_speech_based_segments with the end of the window not clamped to
   the duration of the chunk *)
create_speech_based_segments_unclamped(transcription_segments, duration) ==
    LET text(seg) == Lower(GetOr(seg, "text", <<>>))
        intensity_score(seg) == CountIn(intensity_keywords, text(seg))
        excitement_score(seg) == 2 * CountIn(excitement_keywords, text(seg))
        RECURSIVE loop(_)
        loop(i) ==
            IF i > Len(transcription_segments) THEN <<>>
            ELSE LET seg == transcription_segments[i]
                     segment_start == Max2(0, seg.start - 5 * Sec)
                     segment_end == seg.end + 10 * Sec
                 IN  (IF intensity_score(seg) > 0 \/ excitement_score(seg) > 0
                         \/ Len(text(seg)) > 100
                      THEN << [startTime         |-> segment_start,
                               duration          |-> segment_end - segment_start,
                               type              |-> "speech_based",
                               source_intensity  |-> intensity_score(seg) * One,
                               source_excitement |-> excitement_score(seg) * One,
                               source_text       |-> Take(text(seg), 100),
                               reason            |-> [kind |-> "High-intensity speech",
                                                      text |-> Take(text(seg), 50)]] >>
                      ELSE <<>>) \o loop(i + 1)
    IN  loop(1)

create_speech_based_segments(transcription_segments, duration) ==
    LET text(seg) == Lower(GetOr(seg, "text", <<>>))
        intensity_score(seg) == CountIn(intensity_keywords, text(seg))
        excitement_score(seg) == 2 * CountIn(excitement_keywords, text(seg))
        RECURSIVE loop(_)
        loop(i) ==
            IF i > Len(transcription_segments) THEN <<>>
            ELSE LET seg == transcription_segments[i]
                     segment_start == Max2(0, seg.start - 5 * Sec)
                     segment_end == Min2(duration, seg.end + 10 * Sec)
                 IN  (IF intensity_score(seg) > 0 \/ excitement_score(seg) > 0
                         \/ Len(text(seg)) > 100
                      THEN << [startTime         |-> segment_start,
                               duration          |-> segment_end - segment_start,
                               type              |-> "speech_based",
                               source_intensity  |-> intensity_score(seg) * One,
                               source_excitement |-> excitement_score(seg) * One,
                               source_text       |-> Take(text(seg), 100),
                               reason            |-> [kind |-> "High-intensity speech",
                                                      text |-> Take(text(seg), 50)]] >>
                      ELSE <<>>) \o loop(i + 1)
    IN  loop(1)

create_audio_peak_segments(audio_peaks, duration) ==
    LET intensity(peak) == GetOr(peak, "intensity", PyNum(500000))
        make(peak) ==
            LET peak_time == GetOr(peak, "peak_time", (peak.start + peak.end) \div 2)
                base_duration == 15 * Sec + (intensity(peak).v * 15) \div (One \div Sec)
                segment_start == Max2(0, peak_time - Times(base_duration, 3, 10))
                segment_duration == Min2(base_duration, duration - segment_start)
            IN  [startTime        |-> segment_start,
                 duration         |-> segment_duration,
                 type             |-> "audio_" \o GetOr(peak, "type", "peak"),
                 source_intensity |-> intensity(peak).v,
                 source_peak_time |-> peak_time,
                 reason           |-> [kind |-> "Audio detected",
                                       type |-> GetOr(peak, "type", "peak"),
                                       intensity |-> Format2f(intensity(peak).v)]]
    IN  LoopResult([i \in 1..Len(audio_peaks) |-> ~IsNum(intensity(audio_peaks[i]))],
                   [i \in 1..Len(audio_peaks) |-> make(audio_peaks[i])])

create_vision_event_segments(vision_events, duration) ==
    LET intensity(event) ==
            GetOr(event, "intensity", GetOr(event, "confidence", PyNum(500000)))
        make(event) ==
            LET event_type == GetOr(event, "type", "visual")
                segment_start ==
                    CASE event_type = "scene_change"  -> Max2(0, event.start - 3 * Sec)
                      [] event_type = "motion"        -> event.start
                      [] event_type = "face_detected" -> Max2(0, event.start - 2 * Sec)
                      [] OTHER                        -> event.start
                segment_duration ==
                    CASE event_type = "scene_change"  -> Min2(20 * Sec, duration - segment_start)
                      [] event_type = "motion"        -> Min2(25 * Sec, event.end - event.start)
                      [] event_type = "face_detected" -> Min2(15 * Sec, duration - segment_start)
                      [] OTHER                        -> Min2(20 * Sec, event.end - event.start)
            IN  [startTime        |-> segment_start,
                 duration         |-> segment_duration,
                 type             |-> "vision_" \o event_type,
                 source_intensity |-> intensity(event).v,
                 reason           |-> [kind |-> "Visual event",
                                       type |-> event_type,
                                       intensity |-> Format2f(intensity(event).v)]]
    \* f"{intensity:.2f}" raises on a value that is not a number
    IN  LoopResult([i \in 1..Len(vision_events) |-> ~IsNum(intensity(vision_events[i]))],
                   [i \in 1..Len(vision_events) |-> make(vision_events[i])])

(* SortAsc leaving the list in the order it has *)
SortAsc_unsorted(xs, keys) == xs

(* sorted(xs, key=...) and xs.sort(key=...), where keys[i] is the key of
   xs[i]: stable, ascending *)
SortAsc(xs, keys) ==
    LET n == Len(xs)
        \* the place of xs[i] in the sorted list: after every smaller key, and
        \* after every equal key that came before it
        place(i) == 1 + Cardinality({j \in 1..n : \/ keys[j] < keys[i]
                                                   \/ (keys[j] = keys[i] /\ j < i)})
    IN  [r \in 1..n |-> xs[CHOOSE i \in 1..n : place(i) = r]]

(* SortDesc leaving the list in the order it has *)
SortDesc_unsorted(xs, keys) == xs

(* SortDesc sorting in ascending order, the reverse=True left out *)
SortDesc_ascending(xs, keys) == SortAsc(xs, keys)

(* sorted(xs, key=key, reverse=True): stable, descending: equal keys keep
   their original order *)
SortDesc(xs, keys) == SortAsc(xs, [i \in 1..Len(xs) |-> -keys[i]])

(* the order in which this interpreter process iterates a set of the
   modality names: str hashes are salted per process, so the order is fixed
   within a process and may differ between processes.  hash_order is a
   permutation of the three names.  *)
Modalities == {"speech", "audio", "vision"}
HashOrders ==
    {p \in [1..3 -> Modalities] : \A i, j \in 1..3 : i # j => p[i] # p[j]}
SetToList(S, hash_order) == SelectSeq(hash_order, LAMBDA t : t \in S)

(* find_event_clusters closing the cluster after every event *)
find_event_clusters_singletons(events, max_gap) ==
    [i \in 1..Len(events) |-> <<events[i]>>]

find_event_clusters(events, max_gap) ==
    IF Len(events) = 0 THEN <<>>
    ELSE LET RECURSIVE loop(_, _, _)
             loop(i, clusters, current_cluster) ==
                 IF i > Len(events) THEN Append(clusters, current_cluster)
                 ELSE LET current_event == events[i]
                          last_event == current_cluster[Len(current_cluster)]
                          gap == current_event.start - last_event.end
                      IN  IF gap <= max_gap
                          THEN loop(i + 1, clusters, Append(current_cluster, current_event))
                          ELSE loop(i + 1, Append(clusters, current_cluster), <<current_event>>)
         IN  loop(2, <<>>, <<events[1]>>)

ClusterStart(cluster) ==
    CHOOSE t \in {cluster[i].start : i \in 1..Len(cluster)} :
        \A i \in 1..Len(cluster) : t <= cluster[i].start
ClusterEnd(cluster) ==
    CHOOSE t \in {cluster[i].end : i \in 1..Len(cluster)} :
        \A i \in 1..Len(cluster) : t >= cluster[i].end
ClusterTypes(cluster) == {cluster[i].type : i \in 1..Len(cluster)}

calculate_fusion_score(event_cluster) ==
    IF Len(event_cluster) = 0 THEN Ok(0)
    ELSE LET modality_bonus == Cardinality(ClusterTypes(event_cluster)) * 150000
             cluster_duration == ClusterEnd(event_cluster) - ClusterStart(event_cluster)
             \* density = len / cluster_duration (per second); density * 0.1
             density_bonus ==
                 IF Len(event_cluster) > 1 /\ cluster_duration > 0
                 THEN Min2((Len(event_cluster) * 100000 * Sec) \div cluster_duration, 300000)
                 ELSE 0
             value(event) ==
                 CASE event.type = "audio"  -> GetOr(event.data, "intensity", PyNum(500000))
                   [] event.type = "vision" -> GetOr(event.data, "intensity",
                                                     GetOr(event.data, "confidence", PyNum(500000)))
                   [] OTHER -> PyNum(0)
             quality(event) ==
                 CASE event.type = "speech" ->
                          IF AnyIn(fusion_quality_words, Lower(GetOr(event.data, "text", <<>>)))
                          THEN 200000 ELSE 0
                   [] event.type = "audio"  -> Times(value(event).v, 15, 100)
                   [] event.type = "vision" -> Times(value(event).v, 1, 10)
                   [] OTHER -> 0
             score == modality_bonus + density_bonus
                      + SumSeq([i \in 1..Len(event_cluster) |-> quality(event_cluster[i])])
         IN  IF \E i \in 1..Len(event_cluster) : ~IsNum(value(event_cluster[i]))
             THEN Raise("TypeError")
             ELSE Ok(Min2(score, One))

(* segment_creators.py 114-147: the events of the three lists, sorted by
   start *)
FusionEvents(transcription_segments, audio_peaks, vision_events) ==
    LET speech_events == [i \in 1..Len(transcription_segments) |->
                            [start |-> transcription_segments[i].start,
                             end   |-> transcription_segments[i].end,
                             type  |-> "speech",
                             data  |-> transcription_segments[i]]]
        audio_events == [i \in 1..Len(audio_peaks) |->
                            [start |-> audio_peaks[i].start,
                             end   |-> audio_peaks[i].end,
                             type  |-> "audio",
                             data  |-> audio_peaks[i],
                             peak_time |-> GetOr(audio_peaks[i], "peak_time",
                                                 (audio_peaks[i].start + audio_peaks[i].end) \div 2)]]
        visual_events == [i \in 1..Len(vision_events) |->
                            [start |-> vision_events[i].start,
                             end   |-> vision_events[i].end,
                             type  |-> "vision",
                             data  |-> vision_events[i]]]
        unsorted_events == speech_events \o audio_events \o visual_events
        all_events == SortAsc(unsorted_events,
                              [i \in 1..Len(unsorted_events) |-> unsorted_events[i].start])
    IN  all_events

(* create_fusion_segments without the minimum of 2 events per cluster *)
create_fusion_segments_single_events(transcription_segments, audio_peaks, vision_events, duration, hash_order) ==
    LET all_events == FusionEvents(transcription_segments, audio_peaks, vision_events)
        clusters == find_event_clusters(all_events, 10 * Sec)
        big == SelectSeq(clusters, LAMBDA c : Len(c) >= 1)
        segment_start(cluster) == Max2(0, ClusterStart(cluster) - 5 * Sec)
        segment_end(cluster) == Min2(duration, ClusterEnd(cluster) + 8 * Sec)
        segment_duration(cluster) == segment_end(cluster) - segment_start(cluster)
        emitted == SelectSeq(big, LAMBDA c : /\ segment_duration(c) >= 10 * Sec
                                             /\ calculate_fusion_score(c).val > 300000)
    IN  IF \E i \in 1..Len(big) : Raised(calculate_fusion_score(big[i]))
        THEN Raise("TypeError")
        ELSE Ok([i \in 1..Len(emitted) |->
                  [startTime     |-> segment_start(emitted[i]),
                   duration      |-> segment_duration(emitted[i]),
                   type          |-> "multi_modal_fusion",
                   source_events |-> Len(emitted[i]),
                   source_types  |-> SetToList(ClusterTypes(emitted[i]), hash_order),
                   fusion_score  |-> calculate_fusion_score(emitted[i]).val,
                   reason        |-> [kind   |-> "Multi-modal event cluster",
                                      events |-> Len(emitted[i]),
                                      types  |-> SetToList(ClusterTypes(emitted[i]), hash_order)]]])

create_fusion_segments(transcription_segments, audio_peaks, vision_events, duration, hash_order) ==
    LET all_events == FusionEvents(transcription_segments, audio_peaks, vision_events)
        clusters == find_event_clusters(all_events, 10 * Sec)
        big == SelectSeq(clusters, LAMBDA c : Len(c) >= 2)
        segment_start(cluster) == Max2(0, ClusterStart(cluster) - 5 * Sec)
        segment_end(cluster) == Min2(duration, ClusterEnd(cluster) + 8 * Sec)
        segment_duration(cluster) == segment_end(cluster) - segment_start(cluster)
        emitted == SelectSeq(big, LAMBDA c : /\ segment_duration(c) >= 10 * Sec
                                             /\ calculate_fusion_score(c).val > 300000)
    IN  IF \E i \in 1..Len(big) : Raised(calculate_fusion_score(big[i]))
        THEN Raise("TypeError")
        ELSE Ok([i \in 1..Len(emitted) |->
                  [startTime     |-> segment_start(emitted[i]),
                   duration      |-> segment_duration(emitted[i]),
                   type          |-> "multi_modal_fusion",
                   source_events |-> Len(emitted[i]),
                   source_types  |-> SetToList(ClusterTypes(emitted[i]), hash_order),
                   fusion_score  |-> calculate_fusion_score(emitted[i]).val,
                   reason        |-> [kind   |-> "Multi-modal event cluster",
                                      events |-> Len(emitted[i]),
                                      types  |-> SetToList(ClusterTypes(emitted[i]), hash_order)]]])

---------------------------------------------------------------------------
(* Scoring model (segment_creators.py) *)

TypeSuffixes == {"_based", "_energy", "_volume", "_spectral", "_peak",
                 "_scene_change", "_motion", "_face_detected", "_visual"}

(* t.startswith(prefix), for the type names the generators build *)
StartsWith(t, prefix) == \E k \in TypeSuffixes : t = prefix \o k

(* t.split('_')[-1] *)
LastPart(t) ==
    CASE t = "speech_based" -> "based"
      [] t = "audio_energy" -> "energy"
      [] t = "audio_volume" -> "volume"
      [] t = "audio_spectral" -> "spectral"
      [] t = "audio_peak" -> "peak"
      [] t = "vision_scene_change" -> "change"
      [] t = "vision_motion" -> "motion"
      [] t = "vision_face_detected" -> "detected"
      [] t = "vision_visual" -> "visual"
      [] t = "multi_modal_fusion" -> "fusion"
      [] OTHER -> t

overlaps(start1, end1, start2, end2) == start1 < end2 /\ start2 < end1

EventValue(event) ==
    GetOr(event, "intensity", GetOr(event, "confidence", PyNum(500000)))

calculate_context_bonus(segment, transcription_segments, audio_peaks, vision_events) ==
    LET segment_start == segment.startTime
        segment_end == segment_start + segment.duration
        speech(trans_seg) ==
            IF /\ overlaps(segment_start, segment_end, trans_seg.start, trans_seg.end)
               /\ AnyIn(context_keywords, Lower(GetOr(trans_seg, "text", <<>>)))
            THEN 100000 ELSE 0
        audio(peak) ==
            IF overlaps(segment_start, segment_end, peak.start, peak.end)
            THEN Times(GetOr(peak, "intensity", PyNum(500000)).v, 5, 100) ELSE 0
        vision(event) ==
            IF overlaps(segment_start, segment_end, event.start, event.end)
            THEN Times(EventValue(event).v, 3, 100) ELSE 0
        bonus == SumSeq([i \in 1..Len(transcription_segments) |-> speech(transcription_segments[i])])
                 + SumSeq([i \in 1..Len(audio_peaks) |-> audio(audio_peaks[i])])
                 + SumSeq([i \in 1..Len(vision_events) |-> vision(vision_events[i])])
    IN  Min2(bonus, 300000)

(* SourceBonus with the excitement term subtracted *)
SourceBonus_minus(segment) ==
    Times(GetOr(segment, "source_intensity", 0), 1, 10)
    - Times(GetOr(segment, "source_excitement", 0), 15, 100)

(* segment_creators.py 272-274: the bonus from source intensity and excitement *)
SourceBonus(segment) ==
    Times(GetOr(segment, "source_intensity", 0), 1, 10)
    + Times(GetOr(segment, "source_excitement", 0), 15, 100)

(* the score before the context bonus is added *)
ShapedScore(segment) ==
    LET segment_type == GetOr(segment, "type", "unknown")
        base == CASE StartsWith(segment_type, "speech") -> 300000
                  [] StartsWith(segment_type, "audio")  -> 250000
                  [] StartsWith(segment_type, "vision") -> 200000
                  [] segment_type = "multi_modal_fusion" -> 400000
                  [] OTHER -> 0
        bonuses == SourceBonus(segment)
        fusion == IF segment_type = "multi_modal_fusion"
                  THEN Times(GetOr(segment, "fusion_score", 0), 3, 10)
                       + Len(GetOr(segment, "source_types", <<>>)) * 50000
                  ELSE 0
        score == base + bonuses + fusion
        duration == GetOr(segment, "duration", 0)
    IN  IF duration < 5 * Sec THEN Times(score, 3, 10)
        ELSE IF duration < 10 * Sec THEN Times(score, 7, 10)
        ELSE IF duration > 45 * Sec THEN Times(score, 8, 10)
        ELSE score

(* score_highlight_segment with the duration multiplier applied to the
   context bonus as well *)
score_highlight_segment_bonus_shaped(segment, chunk, transcription_segments, audio_peaks, vision_events) ==
    LET duration == GetOr(segment, "duration", 0)
        bonus == calculate_context_bonus(segment, transcription_segments, audio_peaks,
                                         vision_events)
        shaped_bonus == IF duration < 5 * Sec THEN Times(bonus, 3, 10)
                        ELSE IF duration < 10 * Sec THEN Times(bonus, 7, 10)
                        ELSE IF duration > 45 * Sec THEN Times(bonus, 8, 10)
                        ELSE bonus
    IN  Min2(ShapedScore(segment) + shaped_bonus, One)

score_highlight_segment(segment, chunk, transcription_segments, audio_peaks, vision_events) ==
    Min2(ShapedScore(segment)
         + calculate_context_bonus(segment, transcription_segments, audio_peaks, vision_events),
         One)

calculate_segment_confidence(segment, chunk) ==
    LET duration == GetOr(segment, "duration", 0)
        confidence ==
            500000
            + (IF GetOr(segment, "type", "") = "multi_modal_fusion" THEN 300000 ELSE 0)
            + (IF GetOr(segment, "source_excitement", 0) > 0 THEN 200000 ELSE 0)
            + (IF GetOr(segment, "source_intensity", 0) > 700000 THEN 100000 ELSE 0)
            + (IF 15 * Sec <= duration /\ duration <= 30 * Sec THEN 100000 ELSE 0)
    IN  Min2(confidence, One)

get_segment_score_breakdown(segment, chunk) ==
    [base_type_score  |-> IF StartsWith(GetOr(segment, "type", ""), "speech")
                          THEN 300000 ELSE 200000,
     intensity_bonus  |-> Times(GetOr(segment, "source_intensity", 0), 1, 10),
     excitement_bonus |-> Times(GetOr(segment, "source_excitement", 0), 15, 100),
     fusion_bonus     |-> IF GetOr(segment, "type", "") = "multi_modal_fusion"
                          THEN Times(GetOr(segment, "fusion_score", 0), 3, 10) ELSE 0,
     \* max(0, 1 - abs(duration - 20) / 20) * 0.1
     duration_penalty |-> Times(Max2(0, One - Abs(GetOr(segment, "duration", 20 * Sec) - 20 * Sec) * 50),
                                1, 10),
     context_bonus    |-> 50000]

get_segment_reasons(segment, chunk) ==
    LET segment_type == GetOr(segment, "type", "")
        duration == GetOr(segment, "duration", 0)
        byType ==
            IF StartsWith(segment_type, "speech")
            THEN << <<"Contains high-intensity speech">> >>
                 \o (IF GetOr(segment, "source_excitement", 0) > 0
                     THEN << <<"Excitement keywords detected">> >> ELSE <<>>)
            ELSE IF StartsWith(segment_type, "audio")
            THEN << <<"Audio detected", LastPart(segment_type)>> >>
            ELSE IF StartsWith(segment_type, "vision")
            THEN << <<"Visual event", LastPart(segment_type)>> >>
            ELSE IF segment_type = "multi_modal_fusion"
            THEN << <<"Multiple events detected">> \o GetOr(segment, "source_types", <<>>) >>
            ELSE <<>>
    IN  byType
        \o (IF GetOr(segment, "source_intensity", 0) > 700000
            THEN << <<"High intensity detected">> >> ELSE <<>>)
        \o (IF 15 * Sec <= duration /\ duration <= 30 * Sec
            THEN << <<"Optimal highlight duration">> >> ELSE <<>>)

---------------------------------------------------------------------------
(* Segment selector (segment_creators.py) *)

(* overlap_duration / duration > 0.5, for a duration other than 0 *)
OverHalf(overlap_duration, duration) == duration > 0 /\ 2 * overlap_duration > duration

OverlapDuration(a, b) ==
    LET overlap_start == Max2(a.startTime, b.startTime)
        overlap_end == Min2(a.startTime + a.duration, b.startTime + b.duration)
    IN  Max2(0, overlap_end - overlap_start)

(* SignificantOverlap testing the candidate's own overlap percentage only,
   the test `segment_overlap_pct > 0.5` *)
SignificantOverlap_own_pct(segment, existing) ==
    OverHalf(OverlapDuration(segment, existing), segment.duration)

(* SignificantOverlap testing the accepted segment's overlap percentage
   only, the test `existing_overlap_pct > 0.5` *)
SignificantOverlap_existing_pct(segment, existing) ==
    OverHalf(OverlapDuration(segment, existing), existing.duration)

(* the test `segment_overlap_pct > 0.5 or existing_overlap_pct > 0.5` *)
SignificantOverlap(segment, existing) ==
    \/ OverHalf(OverlapDuration(segment, existing), segment.duration)
    \/ OverHalf(OverlapDuration(segment, existing), existing.duration)

remove_overlapping_segments(segments) ==
    IF Len(segments) = 0 THEN Ok(segments)
    ELSE LET sorted_segments == SortDesc(segments,
                                          [i \in 1..Len(segments) |-> GetOr(segments[i], "score", 0)])
             \* the inner loop over final_segments stops at the first
             \* significant overlap; a division by a duration of 0 raises
             hit(segment, final, k) == SignificantOverlap(segment, final[k])
             divides0(segment, final, k) == segment.duration = 0 \/ final[k].duration = 0
             raises(segment, final) ==
                 \E k \in 1..Len(final) :
                     /\ divides0(segment, final, k)
                     /\ \A j \in 1..(k - 1) : ~hit(segment, final, j)
             overlaps_existing(segment, final) ==
                 \E k \in 1..Len(final) : hit(segment, final, k)
             RECURSIVE loop(_, _)
             loop(i, final_segments) ==
                 IF i > Len(sorted_segments) THEN Ok(final_segments)
                 ELSE IF raises(sorted_segments[i], final_segments)
                 THEN Raise("ZeroDivisionError")
                 ELSE IF overlaps_existing(sorted_segments[i], final_segments)
                 THEN loop(i + 1, final_segments)
                 ELSE loop(i + 1, Append(final_segments, sorted_segments[i]))
             selected == loop(1, <<>>)
         IN  IF Raised(selected) THEN selected
             ELSE Ok(SortAsc(selected.val,
                             [i \in 1..Len(selected.val) |-> selected.val[i].startTime]))

---------------------------------------------------------------------------
(* The engine (main.py).  cfg holds HIGHLIGHT_THRESHOLD (millionths),
   MIN_HIGHLIGHT_DURATION and MAX_HIGHLIGHT_DURATION (milliseconds), read from
   the environment when the module is loaded.  *)

(* {**c, k1: v1, ...}: c with the keys of extra set *)
WithKeys(c, extra) ==
    [k \in DOMAIN c \cup DOMAIN extra |-> IF k \in DOMAIN extra THEN extra[k] ELSE c[k]]

(* the three typed sequences of a chunk *)
ExtractSignals(chunk) ==
    LET transcription_segments == extract_transcription_segments(chunk.chunkData.transcription)
        audio_peaks == analyze_audio_peaks(chunk.chunkData.audioFeatures, chunk.chunkData.duration)
        vision_events == analyze_vision_events(chunk.chunkData.vision, chunk.chunkData.duration)
    IN  IF Raised(transcription_segments) THEN transcription_segments
        ELSE IF Raised(audio_peaks) THEN audio_peaks
        ELSE IF Raised(vision_events) THEN vision_events
        ELSE Ok([transcription_segments |-> transcription_segments.val,
                 audio_peaks            |-> audio_peaks.val,
                 vision_events          |-> vision_events.val])

(* the concatenated output of the four generators *)
GenerateCandidates(signals, duration, hash_order) ==
    LET speech == create_speech_based_segments(signals.transcription_segments, duration)
        audio == create_audio_peak_segments(signals.audio_peaks, duration)
        vision == create_vision_event_segments(signals.vision_events, duration)
        fusion == create_fusion_segments(signals.transcription_segments, signals.audio_peaks,
                                         signals.vision_events, duration, hash_order)
    IN  IF Raised(audio) THEN audio
        ELSE IF Raised(vision) THEN vision
        ELSE IF Raised(fusion) THEN fusion
        ELSE Ok(speech \o audio.val \o vision.val \o fusion.val)

ScoreCandidates(candidates, chunk, signals) ==
    [i \in 1..Len(candidates) |->
        WithKeys(candidates[i],
                 [score      |-> score_highlight_segment(candidates[i], chunk,
                                     signals.transcription_segments, signals.audio_peaks,
                                     signals.vision_events),
                  confidence |-> calculate_segment_confidence(candidates[i], chunk),
                  breakdown  |-> get_segment_score_breakdown(candidates[i], chunk),
                  reasons    |-> get_segment_reasons(candidates[i], chunk)])]

(* ValidCandidates without the two duration tests of the filter *)
ValidCandidates_score_only(candidates, cfg) ==
    SelectSeq(candidates, LAMBDA c : c.score > 100000)

ValidCandidates(candidates, cfg) ==
    SelectSeq(candidates, LAMBDA c : /\ c.duration >= cfg.MIN_HIGHLIGHT_DURATION
                                     /\ c.duration <= cfg.MAX_HIGHLIGHT_DURATION
                                     /\ c.score > 100000)

(* main.py 237-261: score the candidates, filter them, remove the
   overlapping ones *)
SegmentsFromCandidates(chunk, cfg, signals, candidates) ==
    IF Raised(candidates) THEN candidates
    ELSE remove_overlapping_segments(
             ValidCandidates(ScoreCandidates(candidates.val, chunk, signals), cfg))

(* main.py 222-261: generate the candidates from the extracted signals *)
SegmentsFromSignals(chunk, cfg, hash_order, signals) ==
    IF Raised(signals) THEN signals
    ELSE SegmentsFromCandidates(chunk, cfg, signals.val,
             GenerateCandidates(signals.val, chunk.chunkData.duration, hash_order))

find_highlight_segments_in_chunk(chunk, cfg, hash_order) ==
    SegmentsFromSignals(chunk, cfg, hash_order, ExtractSignals(chunk))

(* len(v) *)
PyLen(v) ==
    CASE v.ty = "str"  -> Ok(Len(v.s))
      [] v.ty = "list" -> Ok(Len(v.items))
      [] v.ty = "dict" -> Ok(Cardinality(DOMAIN v.d))
      [] OTHER -> Raise("TypeError")

(* the "metadata" dict of a highlight *)
HighlightMetadata(chunk) ==
    LET text == extract_transcription_text(chunk.chunkData.transcription)
        transcription_length ==
            IF Truthy(chunk.chunkData.transcription)
            THEN (IF Raised(text) THEN text ELSE PyLen(text.val))
            ELSE Ok(0)
    IN  IF Raised(transcription_length) THEN transcription_length
        ELSE Ok([chunk_duration       |-> chunk.chunkData.duration,
                 transcription_length |-> transcription_length.val,
                 face_detected        |-> IF Truthy(chunk.chunkData.vision)
                                          THEN DictGet(chunk.chunkData.vision, "faces_detected",
                                                       PyBool(FALSE))
                                          ELSE PyBool(FALSE)])

(* ChunkHighlights falling back to the chunk-level baseline 0.2 for a chunk
   without segments, tested against the threshold like a segment's score *)
ChunkHighlights_baseline(chunk, cfg, hash_order) ==
    LET highlight_segments == find_highlight_segments_in_chunk(chunk, cfg, hash_order)
    IN  IF Raised(highlight_segments) THEN highlight_segments
        ELSE IF Len(highlight_segments.val) = 0 /\ 200000 >= cfg.HIGHLIGHT_THRESHOLD
        THEN Ok(<< [chunkId |-> chunk.chunkId, score |-> 200000,
                    suggestedSegments |->
                        << [startTime |-> 0, duration |-> chunk.chunkData.duration] >>] >>)
        ELSE Ok([i \in 1..Len(highlight_segments.val) |->
                  [chunkId |-> chunk.chunkId, score |-> highlight_segments.val[i].score,
                   suggestedSegments |->
                       << [startTime |-> highlight_segments.val[i].startTime,
                           duration  |-> highlight_segments.val[i].duration] >>]])

(* main.py 182-202: one highlight per qualifying segment *)
BuildHighlights(chunk, qualifying, metadata) ==
    IF Len(qualifying) > 0 /\ Raised(metadata) THEN metadata
    ELSE Ok([i \in 1..Len(qualifying) |->
              [chunkId   |-> chunk.chunkId,
               score     |-> qualifying[i].score,
               breakdown |-> qualifying[i].breakdown,
               suggestedSegments |->
                   << [startTime  |-> qualifying[i].startTime,
                       duration   |-> qualifying[i].duration,
                       confidence |-> qualifying[i].confidence,
                       reason     |-> qualifying[i].reason,
                       absoluteStartTime |-> chunk.chunkData.startTime
                                             + qualifying[i].startTime] >>,
               reasons   |-> qualifying[i].reasons,
               metadata  |-> metadata.val]])

(* main.py 179-202: the segments of a chunk at or above the threshold *)
HighlightsOfSegments(chunk, cfg, highlight_segments) ==
    IF Raised(highlight_segments) THEN highlight_segments
    ELSE BuildHighlights(chunk,
             SelectSeq(highlight_segments.val,
                       LAMBDA segment : segment.score >= cfg.HIGHLIGHT_THRESHOLD),
             HighlightMetadata(chunk))

(* the highlights appended for one chunk *)
ChunkHighlights(chunk, cfg, hash_order) ==
    HighlightsOfSegments(chunk, cfg, find_highlight_segments_in_chunk(chunk, cfg, hash_order))

(* SortHighlights with the sort left out: chunk order, segment order *)
SortHighlights_unsorted(highlights) == highlights

(* highlights.sort(key=lambda x: x["score"], reverse=True) *)
SortHighlights(highlights) ==
    SortDesc(highlights, [i \in 1..Len(highlights) |-> highlights[i].score])

(* main.py 166-208: the loop ends at the first chunk that raises; otherwise
   the highlights of all chunks, sorted *)
CollectHighlights(perChunk) ==
    IF \E i \in 1..Len(perChunk) : Raised(perChunk[i])
    THEN Raise(perChunk[CHOOSE i \in 1..Len(perChunk) :
                           /\ Raised(perChunk[i])
                           /\ \A j \in 1..(i - 1) : ~Raised(perChunk[j])].exc)
    ELSE Ok(SortHighlights(Flatten([i \in 1..Len(perChunk) |-> perChunk[i].val])))

(* analyze_and_score_chunks raising on an empty list of chunks *)
analyze_and_score_chunks_needs_chunk(chunks, cfg, hash_order) ==
    IF Len(chunks) = 0 THEN Raise("ValueError")
    ELSE CollectHighlights([i \in 1..Len(chunks) |-> ChunkHighlights(chunks[i], cfg, hash_order)])

analyze_and_score_chunks(chunks, cfg, hash_order) ==
    CollectHighlights([i \in 1..Len(chunks) |-> ChunkHighlights(chunks[i], cfg, hash_order)])

---------------------------------------------------------------------------
(* Chunk-level score (main.py) *)

clip_request_terms ==
  << <<"c","l","i","p"," ","i","t">>,
     <<"c","l","i","p"," ","t","h","a","t">>,
     <<"m","a","k","e"," ","a"," ","c","l","i","p">>,
     <<"t","h","a","t","'","s"," ","a"," ","c","l","i","p">>,
     <<"c","l","i","p","w","o","r","t","h","y">>,
     <<"c","l","i","p"," ","w","o","r","t","h","y">> >>

action_words ==
  << <<"a","m","a","z","i","n","g">>,
     <<"i","n","c","r","e","d","i","b","l","e">>,
     <<"w","o","w">>,
     <<"u","n","b","e","l","i","e","v","a","b","l","e">>,
     <<"i","n","s","a","n","e">>,
     <<"p","e","r","f","e","c","t">>,
     <<"e","p","i","c">>,
     <<"a","w","e","s","o","m","e">>,
     <<"f","a","n","t","a","s","t","i","c">>,
     <<"g","r","e","a","t">>,
     <<"e","x","c","e","l","l","e","n","t">>,
     <<"o","u","t","s","t","a","n","d","i","n","g">>,
     <<"b","r","i","l","l","i","a","n","t">> >>

emotion_words ==
  << <<"e","x","c","i","t","e","d">>,
     <<"s","h","o","c","k","e","d">>,
     <<"s","u","r","p","r","i","s","e","d">>,
     <<"h","a","p","p","y">>,
     <<"a","n","g","r","y">>,
     <<"l","o","v","e">>,
     <<"h","a","t","e">>,
     <<"c","r","a","z","y">>,
     <<"w","i","l","d">>,
     <<"i","n","t","e","n","s","e">>,
     <<"f","u","n">>,
     <<"f","u","n","n","y">>,
     <<"h","i","l","a","r","i","o","u","s">> >>

gaming_words ==
  << <<"c","l","u","t","c","h">>,
     <<"p","l","a","y">>,
     <<"w","i","n">>,
     <<"l","o","s","e">>,
     <<"k","i","l","l">>,
     <<"d","e","a","t","h">>,
     <<"s","c","o","r","e">>,
     <<"p","o","i","n","t","s">>,
     <<"l","e","v","e","l">>,
     <<"g","o","o","d"," ","f","i","g","h","t">>,
     <<"g","g">>,
     <<"n","i","c","e">>,
     <<"s","k","i","l","l","e","d">>,
     <<"c","o","m","b","o">>,
     <<"f","i","n","i","s","h">>,
     <<"v","i","c","t","o","r","y">>,
     <<"d","e","f","e","a","t">> >>


score_transcription(text) ==
    IF ~Truthy(text) THEN Ok(0)
    ELSE IF ~IsStr(text) THEN Raise("AttributeError")      \* text.lower()
    ELSE LET text_lower == Lower(text.s)
             score == 200000
                      + 300000 * CountIn(clip_request_terms, text_lower)
                      + 100000 * CountIn(action_words, text_lower)
                      + 50000 * CountIn(emotion_words, text_lower)
                      + 30000 * CountIn(gaming_words, text_lower)
                      \* min(len(text) / 100, 1.0) * 0.3
                      + Times(Min2(Len(text.s) * 10000, One), 3, 10)
         IN  Ok(Min2(score, 800000))

score_vision_data(vision_data) ==
    LET faces == \/ Truthy(DictGet(vision_data, "faces_detected", PyBool(FALSE)))
                 \/ Truthy(DictGet(vision_data, "faces", PyNone))
        scene_changes0 == DictGet(vision_data, "scene_changes", PyNum(0))
        scene_changes == IF IsList(scene_changes0)
                         THEN PyNum(Len(scene_changes0.items) * One)
                         ELSE scene_changes0
        motion == DictGet(vision_data, "motion_intensity", PyNum(0))
        score == 100000
                 + (IF faces THEN 200000 ELSE 0)
                 + Min2(Times(scene_changes.v, 1, 10), 300000)
                 + (IF motion.v > 0 THEN Min2(Times(motion.v, 1, 10), 200000) ELSE 0)
    IN  IF ~IsNum(scene_changes) \/ ~IsNum(motion)
        THEN Raise("TypeError")          \* scene_changes * 0.1, motion > 0
        ELSE Ok(Min2(score, 600000))

score_audio_features(audio_features) ==
    IF ~Truthy(audio_features) THEN Ok(0)
    ELSE LET energy == DictGet(audio_features, "energy", PyNone)
             averaged == Truthy(energy) /\ IsList(energy)
             samples == IF averaged THEN energy.items ELSE <<>>
             \* sum(energy) / len(energy)
             avg_energy == SumSeq([i \in 1..Len(samples) |-> samples[i].v]) \div Len(samples)
             loudness == DictGet(audio_features, "loudness", PyNum(0))
             score == 100000
                      + (IF averaged THEN Min2(Times(avg_energy, 2, 10), 300000) ELSE 0)
                      + (IF loudness.v > 0 THEN Min2(Times(loudness.v, 5, 100), 200000) ELSE 0)
         IN  IF (\E i \in 1..Len(samples) : ~IsNum(samples[i])) \/ ~IsNum(loudness)
             THEN Raise("TypeError")
             ELSE Ok(Min2(score, 400000))

(* DurationPenalty with the bounds taken inclusive, `<= 3` and `>= 30` *)
DurationPenalty_inclusive(score, duration) ==
    IF duration <= 3 * Sec THEN Times(score, 5, 10)
    ELSE IF duration >= 30 * Sec THEN Times(score, 8, 10)
    ELSE score

(* main.py 511-516: the penalty for very short and very long chunks *)
DurationPenalty(score, duration) ==
    IF duration < 3 * Sec THEN Times(score, 5, 10)
    ELSE IF duration > 30 * Sec THEN Times(score, 8, 10)
    ELSE score

calculate_chunk_score(chunk) ==
    LET transcription == chunk.chunkData.transcription
        vision == chunk.chunkData.vision
        audioFeatures == chunk.chunkData.audioFeatures
        duration == chunk.chunkData.duration
        \* the text is extracted as extract_transcription_text does (the same code, inlined)
        text == extract_transcription_text(transcription)
        transcription_score ==
            IF ~Truthy(transcription) THEN Ok(0)
            ELSE IF Raised(text) THEN text
            ELSE score_transcription(text.val)
        vision_score == IF Truthy(vision) THEN score_vision_data(vision) ELSE Ok(0)
        audio_score == IF Truthy(audioFeatures) THEN score_audio_features(audioFeatures) ELSE Ok(0)
        score == IF ~Truthy(transcription) /\ ~Truthy(vision) /\ ~Truthy(audioFeatures)
                 THEN 200000
                 ELSE transcription_score.val + vision_score.val + audio_score.val
        penalised == DurationPenalty(score, duration)
    IN  IF Raised(transcription_score) THEN transcription_score
        ELSE IF Raised(vision_score) THEN vision_score
        ELSE IF Raised(audio_score) THEN audio_score
        ELSE Ok(Min2(penalised, One))

---------------------------------------------------------------------------
(* Payloads.  The transcription, audioFeatures and vision payloads the
   specifications draw chunks from: each recognised shape, the missing
   payload, and malformed ones.  Times are in milliseconds, every other
   number in millionths.  *)

tr_none == PyNone
tr_scenario_a == PyDict([segments |-> PyList(<<PyDict([start |-> PyNum(5000), end |-> PyNum(8000), text |-> PyStr(<<"t","h","a","t"," ","w","a","s"," ","a","b","s","o","l","u","t","e","l","y"," ","a","m","a","z","i","n","g","!","!">>)])>>)])
tr_excited == PyDict([segments |-> PyList(<<PyDict([start |-> PyNum(10000), end |-> PyNum(12000), text |-> PyStr(<<" "," ","O","h"," ","m","y"," ","G","o","d",","," ","W","O","W"," ">>)]), PyDict([start |-> PyNum(20000), end |-> PyNum(22000), text |-> PyStr(<<"n","o"," ","w","a","y",","," ","c","l","i","p"," ","t","h","a","t">>), confidence |-> PyNum(900000)])>>)])
tr_plain == PyDict([segments |-> PyList(<<PyDict([start |-> PyNum(2000), end |-> PyNum(4000), text |-> PyStr(<<"o","k"," ","t","h","e","n">>)])>>)])
tr_flat == PyDict([text |-> PyStr(<<"w","h","a","t"," ","a"," ","p","l","a","y">>)])
tr_long == PyDict([segments |-> PyList(<<PyDict([start |-> PyNum(1000), end |-> PyNum(9000), text |-> PyStr(<<"w","e"," ","a","r","e"," ","j","u","s","t"," ","w","a","l","k","i","n","g"," ","a","r","o","u","n","d"," ","t","h","e"," ","m","a","p"," ","r","i","g","h","t"," ","n","o","w"," ","a","n","d"," ","l","o","o","k","i","n","g"," ","f","o","r"," ","t","h","e"," ","n","e","x","t"," ","o","b","j","e","c","t","i","v","e"," ","t","o"," ","t","a","k","e",","," ","n","o","t","h","i","n","g"," ","m","u","c","h"," ","g","o","i","n","g"," ","o","n">>)])>>)])
tr_reversed == PyDict([segments |-> PyList(<<PyDict([start |-> PyNum(9000), end |-> PyNum(6000), text |-> PyStr(<<"w","o","w">>)])>>)])
tr_missing_key == PyDict([segments |-> PyList(<<PyDict([start |-> PyNum(1000), text |-> PyStr(<<"w","o","w">>)]), PyStr(<<"j","u","n","k">>)>>)])
tr_bad_shape == PyDict([segments |-> PyStr(<<"n","/","a">>)])
tr_bad_text == PyDict([segments |-> PyList(<<PyDict([start |-> PyNum(0), end |-> PyNum(1000), text |-> PyNum(5000000)])>>)])
au_none == PyNone
au_scenario_e == PyDict([energy |-> PyList(<<PyNum(100000), PyNum(200000), PyNum(300000), PyNum(400000), PyNum(500000), PyNum(900000), PyNum(500000), PyNum(400000), PyNum(300000), PyNum(200000)>>)])
au_volume == PyDict([volume |-> PyList(<<PyNum(200000), PyNum(800000), PyNum(100000), PyNum(750000), PyNum(300000)>>), energy |-> PyList(<<PyNum(500000), PyNum(500000), PyNum(500000)>>)])
au_loud == PyDict([energy |-> PyList(<<PyNum(0), PyNum(2500000), PyNum(0)>>)])
au_spectral == PyDict([spectral_features |-> PyDict([mfcc |-> PyList(<<PyList(<<PyNum(0), PyNum(0)>>), PyList(<<PyNum(3000000), PyNum(4000000)>>), PyList(<<PyNum(3000000), PyNum(4000000)>>), PyList(<<PyNum(0), PyNum(0)>>)>>)])])
au_bad_shape == PyDict([energy |-> PyStr(<<"l","o","u","d">>)])
au_bad_sample == PyDict([energy |-> PyList(<<PyNum(100000), PyNone, PyNum(200000)>>)])
vi_none == PyNone
vi_scene == PyDict([scene_changes |-> PyList(<<PyDict([timestamp |-> PyNum(6000), intensity |-> PyNum(800000)])>>), faces_detected |-> PyBool(TRUE)])
vi_face == PyDict([face_tracking |-> PyList(<<PyDict([timestamp |-> PyNum(7000), confidence |-> PyNum(900000)])>>)])
vi_motion == PyDict([motion_intensity |-> PyList(<<PyNum(100000), PyNum(700000), PyNum(200000), PyNum(900000), PyNum(300000), PyNum(100000)>>)])
vi_late == PyDict([scene_changes |-> PyList(<<PyDict([timestamp |-> PyNum(40000)])>>)])
vi_negative == PyDict([scene_changes |-> PyList(<<PyDict([timestamp |-> PyNum(10000), intensity |-> PyNum(-4000000)])>>)])
vi_bad_shape == PyDict([scene_changes |-> PyNum(3000000)])
vi_bad_timestamp == PyDict([scene_changes |-> PyList(<<PyDict([timestamp |-> PyStr(<<"s","o","o","n">>)])>>)])

TranscriptionPool == {tr_none, tr_scenario_a, tr_excited, tr_plain, tr_flat, tr_long,
                      tr_reversed, tr_missing_key, tr_bad_shape, tr_bad_text}
AudioPool == {au_none, au_scenario_e, au_volume, au_loud, au_spectral, au_bad_shape,
              au_bad_sample}
VisionPool == {vi_none, vi_scene, vi_face, vi_motion, vi_late, vi_negative, vi_bad_shape,
               vi_bad_timestamp}

(* duration and startTime of a chunk *)
TimingPool == {[duration |-> 30 * Sec, startTime |-> 0],
               [duration |-> 12 * Sec, startTime |-> 30 * Sec]}

ChunkData(transcription, audioFeatures, vision, timing) ==
    [transcription |-> transcription,
     vision        |-> vision,
     audioFeatures |-> audioFeatures,
     duration      |-> timing.duration,
     startTime     |-> timing.startTime]

ChunkInput(chunkId, chunkData) == [chunkId |-> chunkId, chunkData |-> chunkData]

ChunkPool ==
    {ChunkInput("c1", ChunkData(t, a, v, d)) :
        t \in TranscriptionPool, a \in AudioPool, v \in VisionPool, d \in TimingPool}

(* HIGHLIGHT_THRESHOLD, MIN_HIGHLIGHT_DURATION, MAX_HIGHLIGHT_DURATION: the
   defaults of main.py and two other settings of the environment *)
DefaultConfig == [HIGHLIGHT_THRESHOLD    |-> 300000,
                  MIN_HIGHLIGHT_DURATION |-> 5 * Sec,
                  MAX_HIGHLIGHT_DURATION |-> 60 * Sec]
ConfigPool == {DefaultConfig,
               [HIGHLIGHT_THRESHOLD    |-> 500000,
                MIN_HIGHLIGHT_DURATION |-> 10 * Sec,
                MAX_HIGHLIGHT_DURATION |-> 20 * Sec],
               [HIGHLIGHT_THRESHOLD    |-> 50000,
                MIN_HIGHLIGHT_DURATION |-> 16 * Sec,
                MAX_HIGHLIGHT_DURATION |-> 30 * Sec]}

---------------------------------------------------------------------------
(* State *)

VARIABLES
    config,            \* the three parameters read from the environment
    hash_order,        \* this interpreter process's iteration order of str sets
    chunk,             \* find_highlight_segments_in_chunk: its argument,
    pc,                \*   its position,
    signals,           \*   transcription_segments, audio_peaks, vision_events,
    candidates,        \*   candidates,
    final_segments,    \*   and final_segments
    call,              \* the arguments of the function a specification applies
    returned,          \* what its successive calls returned
    processing_jobs,   \* the service's job tracking: streamId -> record
    background_tasks,  \* the process_scoring_job tasks not yet finished
    webhook_posts,     \* the bodies the orchestrator's webhook received
    requests_seen      \* the number of /score-batch requests accepted

vars == <<config, hash_order, chunk, pc, signals, candidates, final_segments,
          call, returned, processing_jobs, background_tasks, webhook_posts,
          requests_seen>>

StreamIds == {"s1", "s2"}
NoJob == [status |-> "none"]

chunkVars == <<chunk, pc, signals, candidates, final_segments>>
callVars == <<call, returned>>
serviceVars == <<processing_jobs, background_tasks, webhook_posts, requests_seen>>

ChunkIdle ==
    /\ chunk = <<>>
    /\ pc = "idle"
    /\ signals = <<>>
    /\ candidates = <<>>
    /\ final_segments = <<>>

CallIdle == call = <<>> /\ returned = <<>>

ServiceInit ==
    /\ processing_jobs = [s \in StreamIds |-> NoJob]
    /\ background_tasks = <<>>
    /\ webhook_posts = {}
    /\ requests_seen = 0

---------------------------------------------------------------------------
(* One call of find_highlight_segments_in_chunk, block by block *)

InitChunk ==
    /\ config \in ConfigPool
    /\ hash_order = <<"speech", "audio", "vision">>
    /\ chunk \in ChunkPool
    /\ pc = "start"
    /\ signals = <<>>
    /\ candidates = <<>>
    /\ final_segments = <<>>
    /\ CallIdle
    /\ ServiceInit

(* main.py 217-220: extract all available data *)
Extract ==
    /\ pc = "start"
    /\ LET extracted == ExtractSignals(chunk)
       IN  IF Raised(extracted)
           THEN pc' = "raised" /\ signals' = signals
           ELSE pc' = "extracted" /\ signals' = extracted.val
    /\ UNCHANGED <<config, hash_order, chunk, candidates, final_segments>>
    /\ UNCHANGED <<callVars, serviceVars>>

(* main.py 222-235: the four generators, concatenated *)
Generate ==
    /\ pc = "extracted"
    /\ LET generated == GenerateCandidates(signals, chunk.chunkData.duration, hash_order)
       IN  IF Raised(generated)
           THEN pc' = "raised" /\ candidates' = candidates
           ELSE pc' = "generated" /\ candidates' = generated.val
    /\ UNCHANGED <<config, hash_order, chunk, signals, final_segments>>
    /\ UNCHANGED <<callVars, serviceVars>>

(* main.py 239-246: score the candidates *)
Score ==
    /\ pc = "generated"
    /\ candidates' = ScoreCandidates(candidates, chunk, signals)
    /\ pc' = "scored"
    /\ UNCHANGED <<config, hash_order, chunk, signals, final_segments>>
    /\ UNCHANGED <<callVars, serviceVars>>

(* main.py 248-261: filter, remove the overlapping segments, return *)
Select ==
    /\ pc = "scored"
    /\ LET selected == remove_overlapping_segments(ValidCandidates(candidates, config))
       IN  IF Raised(selected)
           THEN pc' = "raised" /\ final_segments' = final_segments
           ELSE pc' = "returned" /\ final_segments' = selected.val
    /\ UNCHANGED <<config, hash_order, chunk, signals, candidates>>
    /\ UNCHANGED <<callVars, serviceVars>>

NextChunk == Extract \/ Generate \/ Score \/ Select

SpecChunk == InitChunk /\ [][NextChunk]_vars

---------------------------------------------------------------------------
(* Properties of one call of find_highlight_segments_in_chunk (SpecChunk) *)

Returned == pc = "returned"

(* the seconds two segments share *)
Shared(a, b) ==
    Min2(a.startTime + a.duration, b.startTime + b.duration)
    - Max2(a.startTime, b.startTime)

(* C1: no two segments of the output of find_highlight_segments_in_chunk
   overlap by more than 50% of the duration of either of them.  *)
C1_NoTwoSegmentsOverlapOverHalf ==
    Returned =>
        \A i, j \in 1..Len(final_segments) :
            i # j => /\ 2 * Shared(final_segments[i], final_segments[j])
                            <= final_segments[i].duration
                     /\ 2 * Shared(final_segments[i], final_segments[j])
                            <= final_segments[j].duration

(* the selector had candidates to drop, and two of the segments it kept
   share some time *)
C1_Witness ==
    /\ Returned
    /\ Len(ValidCandidates(candidates, config)) > Len(final_segments)
    /\ \E i, j \in 1..Len(final_segments) :
           i # j /\ Shared(final_segments[i], final_segments[j]) > 0

(* the extraction block raised: the call ended before any signal was stored *)
ExtractionRaised == pc = "raised" /\ signals = <<>>

(* C4: a missing or malformed transcription, vision or audioFeatures payload
   makes its extractor yield an empty list or skip the bad item; the
   extractor never raises.  *)
C4_ExtractorsNeverRaise == ~ExtractionRaised

IsScenarioA ==
    /\ chunk.chunkData.duration = 30 * Sec
    /\ chunk.chunkData.transcription = tr_scenario_a
    /\ chunk.chunkData.audioFeatures = au_none
    /\ chunk.chunkData.vision = vi_none

Scored == pc \in {"scored", "returned"}

(* the part of scenario A the code and the claim agree on: exactly one
   candidate, speech-based, scored at least 0.3 *)
OneSpeechCandidate ==
    /\ Len(candidates) = 1
    /\ candidates[1].type = "speech_based"
    /\ candidates[1].score >= 300000

(* C8 as amended: in scenario A the pipeline produces exactly one candidate,
   speech-based, with a non-zero intensity bonus, no excitement bonus, and a
   score of at least 0.3.  *)
C8_ScenarioA_IntensityBonus ==
    (IsScenarioA /\ Scored) =>
        /\ OneSpeechCandidate
        /\ Times(candidates[1].source_intensity, 1, 10) > 0
        /\ Times(candidates[1].source_excitement, 15, 100) = 0

(* scenario A went through the whole call and its candidate was kept *)
C8_Witness ==
    /\ IsScenarioA
    /\ Returned
    /\ Len(final_segments) = 1
    /\ final_segments[1].type = "speech_based"

(* C8: in scenario A the pipeline produces exactly one candidate,
   speech-based, with a non-zero excitement bonus and a score of at least
   0.3.  *)
C8_ScenarioA_ExcitementBonus ==
    (IsScenarioA /\ Scored) =>
        /\ OneSpeechCandidate
        /\ Times(candidates[1].source_excitement, 15, 100) > 0

---------------------------------------------------------------------------
(* One call of analyze_and_score_chunks on a batch *)

MaxChunks == 2

ChunkIds == <<"c1", "c2", "c3", "c4">>

NoPayloads(timing) == ChunkData(tr_none, au_none, vi_none, timing)

(* the chunkData the batches are made of: speech only, three modalities,
   audio only, no payload at all (short, ordinary, long), and a transcript
   segment whose text is a number *)
BatchChunkPool ==
    {ChunkData(tr_scenario_a, au_none, vi_none, [duration |-> 30 * Sec, startTime |-> 0]),
     ChunkData(tr_excited, au_scenario_e, vi_scene, [duration |-> 30 * Sec, startTime |-> 0]),
     ChunkData(tr_none, au_volume, vi_none, [duration |-> 12 * Sec, startTime |-> 30 * Sec]),
     NoPayloads([duration |-> 2 * Sec, startTime |-> 0]),
     NoPayloads([duration |-> 30 * Sec, startTime |-> 0]),
     NoPayloads([duration |-> 45 * Sec, startTime |-> 60 * Sec]),
     ChunkData(tr_bad_text, au_none, vi_none, [duration |-> 30 * Sec, startTime |-> 0])}

SeqsUpTo(S, n) == UNION {[1..k -> S] : k \in 0..n}

(* the chunks of a request: chunkData with the chunkId of its position *)
MakeBatch(datas) == [i \in 1..Len(datas) |-> ChunkInput(ChunkIds[i], datas[i])]

BatchPool == {MakeBatch(datas) : datas \in SeqsUpTo(BatchChunkPool, MaxChunks)}

InitBatch ==
    /\ config \in ConfigPool
    /\ hash_order \in HashOrders
    /\ ChunkIdle
    /\ call \in {[chunks |-> b] : b \in BatchPool}
    /\ returned = <<>>
    /\ ServiceInit

(* main.py 162-208 *)
AnalyzeBatch ==
    /\ Len(returned) = 0
    /\ returned' = <<analyze_and_score_chunks(call.chunks, config, hash_order)>>
    /\ UNCHANGED <<config, hash_order, call>>
    /\ UNCHANGED <<chunkVars, serviceVars>>

NextBatch == AnalyzeBatch

SpecBatch == InitBatch /\ [][NextBatch]_vars

(* the call returned a list of highlights *)
BatchReturned == Len(returned) = 1 /\ ~Raised(returned[1])

Highlights == returned[1].val

(* C2: every highlight returned by analyze_and_score_chunks has a duration
   between MIN_HIGHLIGHT_DURATION and MAX_HIGHLIGHT_DURATION and a score of
   at least HIGHLIGHT_THRESHOLD, for each setting of the three parameters.  *)
C2_HighlightsWithinConfiguredBounds ==
    BatchReturned =>
        \A i \in 1..Len(Highlights) :
            /\ Highlights[i].score >= config.HIGHLIGHT_THRESHOLD
            /\ \A k \in 1..Len(Highlights[i].suggestedSegments) :
                   /\ Highlights[i].suggestedSegments[k].duration
                          >= config.MIN_HIGHLIGHT_DURATION
                   /\ Highlights[i].suggestedSegments[k].duration
                          <= config.MAX_HIGHLIGHT_DURATION

(* a setting other than the default returned highlights, and fewer than the
   default setting returns for the same batch *)
C2_Witness ==
    /\ BatchReturned
    /\ config # DefaultConfig
    /\ Len(Highlights) > 0
    /\ Len(Highlights) < Len(analyze_and_score_chunks(call.chunks, DefaultConfig,
                                                      hash_order).val)

(* C5: the list returned by analyze_and_score_chunks is sorted by score in
   non-increasing order across all chunks.  *)
C5_SortedByScoreDescending ==
    BatchReturned =>
        \A i, j \in 1..Len(Highlights) :
            i < j => Highlights[i].score >= Highlights[j].score

(* a highlight of the second chunk is ranked before a lower-scored one of
   the first chunk *)
C5_Witness ==
    /\ BatchReturned
    /\ \E i, j \in 1..Len(Highlights) :
           /\ i < j
           /\ Highlights[i].chunkId = ChunkIds[2]
           /\ Highlights[j].chunkId = ChunkIds[1]
           /\ Highlights[i].score > Highlights[j].score

HasNoPayloads(c) ==
    /\ c.chunkData.transcription = tr_none
    /\ c.chunkData.audioFeatures = au_none
    /\ c.chunkData.vision = vi_none

(* C9: a chunk without transcription, vision and audioFeatures payload
   contributes no highlight to the batch result, whatever its duration.  *)
C9_NoPayloadsNoHighlights ==
    BatchReturned =>
        \A k \in 1..Len(call.chunks) :
            HasNoPayloads(call.chunks[k]) =>
                \A i \in 1..Len(Highlights) : Highlights[i].chunkId # call.chunks[k].chunkId

(* a batch of a short chunk without payloads and a chunk with signals
   returned, under the lowest threshold, the highlights of the latter *)
C9_Witness ==
    /\ BatchReturned
    /\ config.HIGHLIGHT_THRESHOLD < 200000
    /\ \E k \in 1..Len(call.chunks) :
           HasNoPayloads(call.chunks[k]) /\ call.chunks[k].chunkData.duration < 3 * Sec
    /\ Len(Highlights) > 0

---------------------------------------------------------------------------
(* The service: POST /score-batch and its background task *)

MaxRequests == 2

SpeechChunkData ==
    ChunkData(tr_scenario_a, au_none, vi_none, [duration |-> 30 * Sec, startTime |-> 0])
BadTextChunkData ==
    ChunkData(tr_bad_text, au_none, vi_none, [duration |-> 30 * Sec, startTime |-> 30 * Sec])

(* the chunk lists of the requests: none, one chunk with speech, and the
   same chunk followed by one whose transcript text is a number *)
ServiceBatches ==
    {MakeBatch(<<>>),
     MakeBatch(<<SpeechChunkData>>),
     MakeBatch(<<SpeechChunkData, BadTextChunkData>>)}

(* ScoringRequest *)
RequestPool == {[streamId |-> s, chunks |-> b] : s \in StreamIds, b \in ServiceBatches}

(* datetime.utcnow().isoformat(): the instant is not modelled *)
utcnow == "utcnow"

Init ==
    /\ config = DefaultConfig
    /\ hash_order \in HashOrders
    /\ ChunkIdle
    /\ CallIdle
    /\ ServiceInit

(* main.py 92-115: the task is added, the job record replaced *)
score_batch_endpoint ==
    \E request \in RequestPool :
        /\ requests_seen < MaxRequests
        /\ requests_seen' = requests_seen + 1
        /\ background_tasks' = Append(background_tasks,
                                      [request |-> request, pc |-> "start", highlights |-> <<>>,
                                       webhook |-> "not_called"])
        /\ processing_jobs' = [processing_jobs EXCEPT
                                  ![request.streamId] = [status      |-> "accepted",
                                                         accepted_at |-> utcnow]]
        /\ UNCHANGED <<config, hash_order, webhook_posts>>
        /\ UNCHANGED <<chunkVars, callVars>>

(* process_scoring_job storing the status completed without the highlights *)
process_scoring_job_without_highlights ==
    \E i \in 1..Len(background_tasks) :
        LET task == background_tasks[i]
            stream_id == task.request.streamId
            processing == WithKeys(processing_jobs[stream_id],
                                   [status |-> "processing", started_at |-> utcnow])
            highlights == analyze_and_score_chunks(task.request.chunks, config, hash_order)
        IN  /\ task.pc = "start"
            /\ IF Raised(highlights)
               THEN /\ processing_jobs' =
                           [processing_jobs EXCEPT
                               ![stream_id] = WithKeys(processing,
                                                       [status    |-> "failed",
                                                        error     |-> highlights.exc,
                                                        failed_at |-> utcnow])]
                    /\ background_tasks' = [background_tasks EXCEPT ![i].pc = "done"]
               ELSE /\ processing_jobs' =
                           [processing_jobs EXCEPT
                               ![stream_id] = WithKeys(processing,
                                                       [status       |-> "completed",
                                                        completed_at |-> utcnow])]
                    /\ background_tasks' = [background_tasks EXCEPT
                                               ![i].pc = "notify",
                                               ![i].highlights = highlights.val]
            /\ UNCHANGED <<config, hash_order, webhook_posts, requests_seen>>
            /\ UNCHANGED <<chunkVars, callVars>>

(* main.py 126-160, up to the await of the webhook call.  The coroutine
   analyze_and_score_chunks never suspends, so no other handler runs between
   the status "processing" and the status "completed" or "failed".  *)
process_scoring_job ==
    \E i \in 1..Len(background_tasks) :
        LET task == background_tasks[i]
            stream_id == task.request.streamId
            processing == WithKeys(processing_jobs[stream_id],
                                   [status |-> "processing", started_at |-> utcnow])
            highlights == analyze_and_score_chunks(task.request.chunks, config, hash_order)
        IN  /\ task.pc = "start"
            /\ IF Raised(highlights)
               THEN /\ processing_jobs' =
                           [processing_jobs EXCEPT
                               ![stream_id] = WithKeys(processing,
                                                       [status    |-> "failed",
                                                        error     |-> highlights.exc,
                                                        failed_at |-> utcnow])]
                    /\ background_tasks' = [background_tasks EXCEPT ![i].pc = "done"]
               ELSE /\ processing_jobs' =
                           [processing_jobs EXCEPT
                               ![stream_id] = WithKeys(processing,
                                                       [status       |-> "completed",
                                                        completed_at |-> utcnow,
                                                        highlights   |-> highlights.val])]
                    /\ background_tasks' = [background_tasks EXCEPT
                                               ![i].pc = "notify",
                                               ![i].highlights = highlights.val]
            /\ UNCHANGED <<config, hash_order, webhook_posts, requests_seen>>
            /\ UNCHANGED <<chunkVars, callVars>>

(* notify_orchestrator_webhook without its try/except: a POST that raises
   is caught by process_scoring_job, which marks the job failed *)
notify_orchestrator_webhook_not_caught ==
    \E i \in 1..Len(background_tasks), delivered \in BOOLEAN :
        LET task == background_tasks[i]
            stream_id == task.request.streamId
        IN  /\ task.pc = "notify"
            /\ webhook_posts' =
                   IF delivered
                   THEN webhook_posts \cup
                            {[streamId |-> stream_id,
                              result   |-> [highlights |-> task.highlights]]}
                   ELSE webhook_posts
            /\ processing_jobs' =
                   IF delivered THEN processing_jobs
                   ELSE [processing_jobs EXCEPT
                            ![stream_id] = WithKeys(@, [status    |-> "failed",
                                                        error     |-> "ClientConnectorError",
                                                        failed_at |-> utcnow])]
            /\ background_tasks' = [background_tasks EXCEPT ![i].pc = "done",
                                                             ![i].webhook =
                                                                 IF delivered THEN "sent"
                                                                 ELSE "failed"]
            /\ UNCHANGED <<config, hash_order, requests_seen>>
            /\ UNCHANGED <<chunkVars, callVars>>

(* main.py 624-637: the POST reaches the orchestrator or raises; the
   exception is logged and swallowed.  The task keeps which of the two was
   logged: "sent" or "failed".  *)
notify_orchestrator_webhook ==
    \E i \in 1..Len(background_tasks), delivered \in BOOLEAN :
        LET task == background_tasks[i]
        IN  /\ task.pc = "notify"
            /\ webhook_posts' =
                   IF delivered
                   THEN webhook_posts \cup
                            {[streamId |-> task.request.streamId,
                              result   |-> [highlights |-> task.highlights]]}
                   ELSE webhook_posts
            /\ background_tasks' = [background_tasks EXCEPT ![i].pc = "done",
                                                             ![i].webhook =
                                                                 IF delivered THEN "sent"
                                                                 ELSE "failed"]
            /\ UNCHANGED <<config, hash_order, processing_jobs, requests_seen>>
            /\ UNCHANGED <<chunkVars, callVars>>

Next == score_batch_endpoint \/ process_scoring_job \/ notify_orchestrator_webhook

Spec == Init /\ [][Next]_vars

(* the task of the only request accepted for its stream *)
OnlyTaskOfStream(i) ==
    \A j \in 1..Len(background_tasks) :
        j # i => background_tasks[j].request.streamId # background_tasks[i].request.streamId

(* the highlights chunk k of a request yields when it is processed alone *)
OwnHighlights(request, k) ==
    analyze_and_score_chunks(<<request.chunks[k]>>, config, hash_order)

InBatchResult(h, stream_id) ==
    /\ "highlights" \in DOMAIN processing_jobs[stream_id]
    /\ \E n \in 1..Len(processing_jobs[stream_id].highlights) :
           processing_jobs[stream_id].highlights[n] = h

(* C3: an exception raised while processing one chunk of a batch does not
   keep the other chunks of the batch from being processed: once the job
   has run, their highlights are in the batch result.  *)
C3_SiblingChunksStillProcessed ==
    \A i \in 1..Len(background_tasks) :
        (background_tasks[i].pc # "start" /\ OnlyTaskOfStream(i)) =>
            \A k \in 1..Len(background_tasks[i].request.chunks) :
                LET own == OwnHighlights(background_tasks[i].request, k)
                IN  ~Raised(own) =>
                        \A n \in 1..Len(own.val) :
                            InBatchResult(own.val[n], background_tasks[i].request.streamId)

---------------------------------------------------------------------------
(* The engine run again on the batch it was run on, in the same interpreter
   process or in a new one *)

FusionChunkData ==
    ChunkData(tr_excited, au_scenario_e, vi_scene, [duration |-> 30 * Sec, startTime |-> 0])

RerunPool ==
    {MakeBatch(<<d>>) : d \in BatchChunkPool}
    \cup {MakeBatch(<<SpeechChunkData, FusionChunkData>>),
          MakeBatch(<<FusionChunkData, BadTextChunkData>>)}

InitRerun ==
    /\ config = DefaultConfig
    /\ hash_order \in HashOrders
    /\ ChunkIdle
    /\ call \in {[chunks |-> b] : b \in RerunPool}
    /\ returned = <<>>
    /\ ServiceInit

(* main.py 162-208, the first and the second run *)
RunEngine ==
    /\ Len(returned) < 2
    /\ returned' = Append(returned, analyze_and_score_chunks(call.chunks, config, hash_order))
    /\ UNCHANGED <<config, hash_order, call>>
    /\ UNCHANGED <<chunkVars, serviceVars>>

(* main.py 640-642: the service is started again between the two runs; the
   new process has its own str hash salt, so its own order of str sets *)
RestartInterpreter ==
    /\ Len(returned) = 1
    /\ hash_order' \in HashOrders \ {hash_order}
    /\ UNCHANGED <<config, call, returned>>
    /\ UNCHANGED <<chunkVars, serviceVars>>

NextRerun == RunEngine \/ RestartInterpreter

SpecRerun == InitRerun /\ [][NextRerun]_vars

(* C6: running the engine twice on an identical batch produces an identical
   ranked output: the same highlights with the same scores in the same
   order.  *)
C6_RerunIdenticalOutput == Len(returned) = 2 => returned[1] = returned[2]

---------------------------------------------------------------------------
(* score_highlight_segment on a candidate whose source_intensity or
   source_excitement is raised between calls *)

MaxRaises == 2

RaiseSteps == {500000, 3 * One}

(* three segments with a keyword each, a segment of 48 seconds, and a
   segment of one second *)
tr_keywords ==
    PyDict([segments |-> PyList(<<PyDict([start |-> PyNum(2000), end |-> PyNum(4000), text |-> PyStr(<<"a", "m", "a", "z", "i", "n", "g">>)]),
        PyDict([start |-> PyNum(6000), end |-> PyNum(8000), text |-> PyStr(<<"p", "e", "r", "f", "e", "c", "t", " ", "c", "l", "i", "p">>)]),
        PyDict([start |-> PyNum(10000), end |-> PyNum(12000), text |-> PyStr(<<"i", "n", "c", "r", "e", "d", "i", "b", "l", "e">>)])>>)])
tr_marathon ==
    PyDict([segments |-> PyList(<<PyDict([start |-> PyNum(2000), end |-> PyNum(50000), text |-> PyStr(<<"t", "h", "a", "t", " ", "w", "a", "s", " ", "a", "m", "a", "z", "i", "n", "g">>)])>>)])
tr_blip ==
    PyDict([segments |-> PyList(<<PyDict([start |-> PyNum(1000), end |-> PyNum(2000), text |-> PyStr(<<"a", "m", "a", "z", "i", "n", "g">>)])>>)])

(* chunks whose candidates are shorter than 5 seconds, longer than 45 seconds,
   or overlap enough events to reach the cap of the context bonus *)
ShapeChunkData ==
    {ChunkData(tr_keywords, au_loud, vi_scene, [duration |-> 30 * Sec, startTime |-> 0]),
     ChunkData(tr_marathon, au_scenario_e, vi_face, [duration |-> 60 * Sec, startTime |-> 0]),
     ChunkData(tr_blip, au_none, vi_none, [duration |-> 4 * Sec, startTime |-> 0])}

ScoreChunkPool ==
    {ChunkInput("c1", d) : d \in {SpeechChunkData, FusionChunkData,
        ChunkData(tr_long, au_volume, vi_negative, [duration |-> 12 * Sec, startTime |-> 0]),
        ChunkData(tr_flat, au_spectral, vi_late, [duration |-> 60 * Sec, startTime |-> 0])}
        \cup ShapeChunkData}

(* the candidates of a chunk, with the signals they are scored against *)
ScoreCalls(c) ==
    LET sig == ExtractSignals(c).val
        cands == GenerateCandidates(sig, c.chunkData.duration, <<"speech", "audio", "vision">>).val
    IN  {[chunk |-> c, signals |-> sig, segment |-> cands[i]] : i \in 1..Len(cands)}

ScoreOf(args) ==
    score_highlight_segment(args.segment, args.chunk, args.signals.transcription_segments,
                            args.signals.audio_peaks, args.signals.vision_events)

InitScore ==
    /\ config = DefaultConfig
    /\ hash_order = <<"speech", "audio", "vision">>
    /\ ChunkIdle
    /\ call \in UNION {ScoreCalls(c) : c \in ScoreChunkPool}
    /\ returned = <<>>
    /\ ServiceInit

(* segment_creators.py 253-293 *)
ScoreSegment ==
    /\ Len(returned) = 0
    /\ returned' = <<ScoreOf(call)>>
    /\ UNCHANGED <<config, hash_order, call>>
    /\ UNCHANGED <<chunkVars, serviceVars>>

(* the segment with field raised by step *)
Raised_by(segment, field, step) ==
    WithKeys(segment, [f \in {field} |-> GetOr(segment, field, 0) + step])

(* the same candidate with source_intensity raised, scored again *)
RaiseIntensity ==
    \E step \in RaiseSteps :
        /\ Len(returned) \in 1..MaxRaises
        /\ call' = [call EXCEPT !.segment = Raised_by(@, "source_intensity", step)]
        /\ returned' = Append(returned, ScoreOf(call'))
        /\ UNCHANGED <<config, hash_order>>
        /\ UNCHANGED <<chunkVars, serviceVars>>

(* the same candidate with source_excitement raised, scored again *)
RaiseExcitement ==
    \E step \in RaiseSteps :
        /\ Len(returned) \in 1..MaxRaises
        /\ call' = [call EXCEPT !.segment = Raised_by(@, "source_excitement", step)]
        /\ returned' = Append(returned, ScoreOf(call'))
        /\ UNCHANGED <<config, hash_order>>
        /\ UNCHANGED <<chunkVars, serviceVars>>

NextScore == ScoreSegment \/ RaiseIntensity \/ RaiseExcitement

SpecScore == InitScore /\ [][NextScore]_vars

(* C7: for a candidate whose other fields and whose chunk signals are held
   fixed, raising source_intensity or source_excitement never lowers the
   value score_highlight_segment returns.  *)
C7_ScoreMonotoneInSourceFields ==
    \A i, j \in 1..Len(returned) : i < j => returned[i] <= returned[j]

(* a raise made the score strictly higher and a later one took it to the
   cap of 1.0 *)
C7_Witness ==
    /\ Len(returned) = MaxRaises + 1
    /\ returned[1] < returned[2]
    /\ returned[Len(returned)] = One

---------------------------------------------------------------------------
(* calculate_chunk_score on one chunk *)

ChunkScoreTimings ==
    {[duration |-> d, startTime |-> 0] :
        d \in {1 * Sec, 2900, 3 * Sec, 10 * Sec, 30 * Sec, 30500, 45 * Sec}}

InitChunkScore ==
    /\ config = DefaultConfig
    /\ hash_order = <<"speech", "audio", "vision">>
    /\ ChunkIdle
    /\ call \in {[chunk |-> ChunkInput("c1", ChunkData(t, a, v, d))] :
                    t \in TranscriptionPool, a \in AudioPool, v \in VisionPool,
                    d \in ChunkScoreTimings}
    /\ returned = <<>>
    /\ ServiceInit

(* main.py 451-521 *)
ChunkScore ==
    /\ Len(returned) = 0
    /\ returned' = <<calculate_chunk_score(call.chunk)>>
    /\ UNCHANGED <<config, hash_order, call>>
    /\ UNCHANGED <<chunkVars, serviceVars>>

NextChunkScore == ChunkScore

SpecChunkScore == InitChunkScore /\ [][NextChunkScore]_vars

ScoredWithoutPayloads == Len(returned) = 1 /\ HasNoPayloads(call.chunk)

(* C10 as amended: the chunk-level score of a chunk without transcription,
   vision and audioFeatures is the baseline 0.2 for a duration from 3 to 30
   seconds, 0.1 for a shorter chunk and 0.16 for a longer one.  *)
C10_BaselineWithDurationPenalty ==
    ScoredWithoutPayloads =>
        returned[1] = Ok(IF call.chunk.chunkData.duration < 3 * Sec THEN 100000
                         ELSE IF call.chunk.chunkData.duration > 30 * Sec THEN 160000
                         ELSE 200000)

(* a chunk of more than 30 seconds without payloads was scored below the
   baseline *)
C10_Witness ==
    /\ ScoredWithoutPayloads
    /\ call.chunk.chunkData.duration > 30 * Sec
    /\ returned[1] = Ok(160000)

(* C10: the chunk-level score of a chunk without transcription, vision and
   audioFeatures is the fixed baseline 0.2, whatever the chunk's duration.  *)
C10_BaselineWhateverDuration ==
    ScoredWithoutPayloads => returned[1] = Ok(200000)

---------------------------------------------------------------------------
(* The selector on lists of scored candidates: the filter and
   remove_overlapping_segments of main.py 248-261 *)

MaxCandidates == 3

(* scored candidates: the two of scenario C, [10,25] scored 0.6 and [12,20]
   scored 0.8, among others of 3 to 15 seconds *)
SelectorSegmentPool ==
    {[startTime |-> s, duration |-> d, score |-> sc] :
        s \in {10 * Sec, 12 * Sec, 18 * Sec},
        d \in {3 * Sec, 5 * Sec, 8 * Sec, 15 * Sec},
        sc \in {600000, 800000}}

InitSelect ==
    /\ config = DefaultConfig
    /\ hash_order = <<"speech", "audio", "vision">>
    /\ chunk = <<>>
    /\ pc = "scored"
    /\ signals = <<>>
    /\ candidates \in SeqsUpTo(SelectorSegmentPool, MaxCandidates)
    /\ final_segments = <<>>
    /\ CallIdle
    /\ ServiceInit

NextSelect == Select

SpecSelect == InitSelect /\ [][NextSelect]_vars

(* the candidates given to remove_overlapping_segments *)
Given == ValidCandidates(candidates, config)

(* the interval of a lies entirely inside the interval of b *)
Inside(a, b) ==
    /\ b.startTime <= a.startTime
    /\ a.startTime + a.duration <= b.startTime + b.duration

(* the output holds candidates i and j of the input, at two places *)
KeepsBoth(i, j) ==
    \E p, q \in 1..Len(final_segments) :
        p # q /\ final_segments[p] = Given[i] /\ final_segments[q] = Given[j]

(* C11: when the interval of one candidate given to the selector lies
   entirely inside that of another, the output never contains both; when
   the two are the only candidates, the output is exactly the higher-scored
   one.  *)
C11_NestedCandidatesNeverBothKept ==
    Returned =>
        /\ \A i, j \in 1..Len(Given) :
               (i # j /\ Inside(Given[i], Given[j])) => ~KeepsBoth(i, j)
        /\ \A i, j \in 1..Len(Given) :
               (Len(Given) = 2 /\ i # j /\ Inside(Given[i], Given[j])
                    /\ Given[i].score > Given[j].score)
               => (final_segments = <<Given[i]>>
                   /\ remove_overlapping_segments(<<Given[j], Given[i]>>).val = <<Given[i]>>)

(* the selector was given a candidate that covers less than half of a
   higher-scored one around it, and kept the outer one only *)
C11_Witness ==
    /\ Returned
    /\ Len(Given) = 2
    /\ Inside(Given[2], Given[1])
    /\ 2 * Given[2].duration < Given[1].duration
    /\ Given[1].score > Given[2].score
    /\ final_segments = <<Given[1]>>

(* the reference selection of C19 on the candidates given to the selector.
   Candidate j is taken before candidate i when its score is higher; of two
   equal scores the one given first is taken first.  *)
TakenBefore(j, i) ==
    \/ Given[j].score > Given[i].score
    \/ (Given[j].score = Given[i].score /\ j < i)

(* the overlap exceeds 50% of the duration of a or of b *)
ExceedsHalfOfEither(a, b) ==
    \/ 2 * Shared(a, b) > a.duration
    \/ 2 * Shared(a, b) > b.duration

(* candidate i is accepted: it conflicts with no accepted candidate taken
   before it *)
RECURSIVE Accepted(_)
Accepted(i) ==
    \A j \in 1..Len(Given) :
        (TakenBefore(j, i) /\ Accepted(j)) => ~ExceedsHalfOfEither(Given[i], Given[j])

AcceptedSet == {i \in 1..Len(Given) : Accepted(i)}

(* C19: the output of remove_overlapping_segments is the reference greedy
   selection: the candidates taken in descending score order, each accepted
   unless its overlap with an accepted one exceeds 50% of either duration,
   returned sorted by startTime ascending.  *)
C19_SelectorEqualsReferenceGreedy ==
    Returned =>
        /\ Len(final_segments) = Cardinality(AcceptedSet)
        /\ \E f \in [1..Len(final_segments) -> AcceptedSet] :
               /\ \A p, q \in 1..Len(final_segments) : p # q => f[p] # f[q]
               /\ \A p \in 1..Len(final_segments) : final_segments[p] = Given[f[p]]
        /\ \A p, q \in 1..Len(final_segments) :
               p < q => final_segments[p].startTime <= final_segments[q].startTime

(* three candidates were given: the highest-scored starts last, one was
   rejected, and the two accepted come back in the order of their starts *)
C19_Witness ==
    /\ Returned
    /\ Len(Given) = 3
    /\ Len(final_segments) = 2
    /\ final_segments[1].startTime < final_segments[2].startTime
    /\ final_segments[2].score > final_segments[1].score
    /\ \A i \in 1..3 : Given[i].score <= final_segments[2].score

---------------------------------------------------------------------------
(* Extraction and candidate generation on chunks that hold one speech
   segment, one audio peak and one vision event (scenario D) *)

SpeechAt(s, e) ==
    PyDict([segments |-> PyList(<<PyDict([start |-> PyNum(s), end |-> PyNum(e),
                                          text  |-> PyStr(<<"w", "o", "w">>)])>>)])

(* n samples, all 0.1 but sample i (counted from 0), which is 0.9 *)
EnergyPeakAt(i, n) ==
    PyDict([energy |-> PyList([k \in 1..n |-> PyNum(IF k = i + 1 THEN 900000 ELSE 100000)])])

(* n MFCC frames: [0, 0] before frame i (counted from 0), [3, 4] from it on *)
MfccChangeAt(i, n) ==
    PyDict([spectral_features |->
        PyDict([mfcc |-> PyList([k \in 1..n |->
                   PyList(IF k <= i THEN <<PyNum(0), PyNum(0)>>
                          ELSE <<PyNum(3 * One), PyNum(4 * One)>>)])])])

FaceAt(t) ==
    PyDict([face_tracking |-> PyList(<<PyDict([timestamp |-> PyNum(t),
                                               confidence |-> PyNum(900000)])>>)])

SceneAt(t, intensity) ==
    PyDict([scene_changes |-> PyList(<<PyDict([timestamp |-> PyNum(t),
                                               intensity |-> PyNum(intensity)])>>)])

(* chunks of 30 seconds with the three events near the end of the chunk or
   in the middle of it, and chunks of 6 seconds *)
ScenarioDChunkPool ==
    {ChunkInput("c1", ChunkData(t, a, v, [duration |-> 30 * Sec, startTime |-> 0])) :
        t \in {SpeechAt(25 * Sec, 27 * Sec), SpeechAt(26 * Sec, 28 * Sec),
               SpeechAt(27 * Sec, 29 * Sec), SpeechAt(10 * Sec, 12 * Sec)},
        a \in {MfccChangeAt(27, 30), MfccChangeAt(28, 30), MfccChangeAt(29, 30),
               EnergyPeakAt(5, 10)},
        v \in {FaceAt(27 * Sec), SceneAt(27 * Sec, 800000), SceneAt(28 * Sec, -4 * One),
               SceneAt(12 * Sec, 800000)}}
    \cup
    {ChunkInput("c1", ChunkData(t, a, v, [duration |-> 6 * Sec, startTime |-> 0])) :
        t \in {SpeechAt(1 * Sec, 3 * Sec), SpeechAt(2 * Sec, 4 * Sec)},
        a \in {EnergyPeakAt(2, 6), EnergyPeakAt(3, 6)},
        v \in {FaceAt(2 * Sec), SceneAt(2 * Sec, 800000)}}

InitFusion ==
    /\ config = DefaultConfig
    /\ hash_order = <<"speech", "audio", "vision">>
    /\ chunk \in ScenarioDChunkPool
    /\ pc = "start"
    /\ signals = <<>>
    /\ candidates = <<>>
    /\ final_segments = <<>>
    /\ CallIdle
    /\ ServiceInit

NextFusion == Extract \/ Generate

SpecFusion == InitFusion /\ [][NextFusion]_vars

(* the events create_fusion_segments builds from the extracted signals *)
Events ==
    FusionEvents(signals.transcription_segments, signals.audio_peaks, signals.vision_events)

(* the candidates were generated from one speech, one audio and one vision
   event that all lie within a span of 6 seconds *)
ScenarioD ==
    /\ pc = "generated"
    /\ Len(signals.transcription_segments) = 1
    /\ Len(signals.audio_peaks) = 1
    /\ Len(signals.vision_events) = 1
    /\ ClusterEnd(Events) - ClusterStart(Events) <= 6 * Sec

FusionCandidates == SelectSeq(candidates, LAMBDA c : c.type = "multi_modal_fusion")

CoversEvents(c) ==
    \A i \in 1..Len(Events) :
        c.startTime <= Events[i].start /\ Events[i].end <= c.startTime + c.duration

(* the window [min(start) - 5, max(end) + 8] of the events, clamped to the
   chunk *)
WindowStart == Max2(0, ClusterStart(Events) - 5 * Sec)
WindowEnd == Min2(chunk.chunkData.duration, ClusterEnd(Events) + 8 * Sec)

(* C12 as amended: for one speech, one audio and one vision event within a
   span of 6 seconds, find_event_clusters returns a single cluster holding
   all three, and create_fusion_segments emits one candidate, whose window
   covers the three events, when the window clamped to the chunk is at least
   10 seconds long and the cluster's fusion score exceeds 0.3, and no
   candidate otherwise.  *)
C12_ScenarioD_OneCandidateIfWindowLongEnough ==
    ScenarioD =>
        /\ find_event_clusters(Events, 10 * Sec) = <<Events>>
        /\ Len(FusionCandidates) =
               (IF /\ WindowEnd - WindowStart >= 10 * Sec
                   /\ calculate_fusion_score(Events).val > 300000
                THEN 1 ELSE 0)
        /\ \A k \in 1..Len(FusionCandidates) :
               /\ CoversEvents(FusionCandidates[k])
               /\ FusionCandidates[k].source_events = 3

(* the three events lie near the end of the chunk and the candidate emitted
   for them is cut at the end of the chunk *)
C12_Witness ==
    /\ ScenarioD
    /\ Len(FusionCandidates) = 1
    /\ FusionCandidates[1].startTime + FusionCandidates[1].duration = chunk.chunkData.duration
    /\ FusionCandidates[1].duration < 13 * Sec

(* C12: for one speech, one audio and one vision event within a span of 6
   seconds, find_event_clusters returns a single cluster holding all three
   and create_fusion_segments emits exactly one candidate, whose window
   covers the three events.  *)
C12_ScenarioD_ExactlyOneCandidate ==
    ScenarioD =>
        /\ find_event_clusters(Events, 10 * Sec) = <<Events>>
        /\ Len(FusionCandidates) = 1
        /\ \A k \in 1..Len(FusionCandidates) : CoversEvents(FusionCandidates[k])

---------------------------------------------------------------------------
(* find_peaks_in_signal on one signal array *)

MaxSamples == 4

SamplePool == {PyNum(600000), PyNum(700000), PyNum(800000), PyNum(900000)}

(* the arrays of up to MaxSamples samples, and the energy array of scenario E *)
SignalPool == SeqsUpTo(SamplePool, MaxSamples) \cup {au_scenario_e.d["energy"].items}

InitPeaks ==
    /\ config = DefaultConfig
    /\ hash_order = <<"speech", "audio", "vision">>
    /\ ChunkIdle
    /\ call \in {[signal_data |-> x, duration |-> d, threshold |-> t] :
                    x \in SignalPool, d \in {30 * Sec, 12 * Sec}, t \in {700000, 600000}}
    /\ returned = <<>>
    /\ ServiceInit

(* main.py 390-420 *)
FindPeaks ==
    /\ Len(returned) = 0
    /\ returned' = <<find_peaks_in_signal(call.signal_data, call.duration, call.threshold)>>
    /\ UNCHANGED <<config, hash_order, call>>
    /\ UNCHANGED <<chunkVars, serviceVars>>

NextPeaks == FindPeaks

SpecPeaks == InitPeaks /\ [][NextPeaks]_vars

(* sample i of the signal, i counted from 0 *)
Sample(i) == call.signal_data[i + 1].v

(* the indices C13 names: two neighbours, strictly greater than both, above
   the threshold *)
PeakIndices ==
    {i \in 0..(Len(call.signal_data) - 1) :
        /\ i >= 1
        /\ i <= Len(call.signal_data) - 2
        /\ Sample(i) > Sample(i - 1)
        /\ Sample(i) > Sample(i + 1)
        /\ Sample(i) > call.threshold}

PeaksFound == returned[1].val

(* C13: find_peaks_in_signal reports a peak at index i if and only if sample
   i has two neighbours, is strictly greater than both and exceeds the
   threshold; the peak's time is i * duration / len(array); the energy array
   of scenario E over 30 seconds yields exactly one AudioPeak, at 15
   seconds.  *)
C13_PeakIffStrictLocalMaximumAboveThreshold ==
    Len(returned) = 1 =>
        /\ ~Raised(returned[1])
        /\ Len(PeaksFound) = Cardinality(PeakIndices)
        /\ \A i \in PeakIndices :
               \E k \in 1..Len(PeaksFound) :
                   /\ PeaksFound[k].peak_time * Len(call.signal_data) = i * call.duration
                   /\ PeaksFound[k].intensity.v = Sample(i)
        /\ \A k \in 1..Len(PeaksFound) :
               \E i \in PeakIndices :
                   PeaksFound[k].peak_time * Len(call.signal_data) = i * call.duration
        /\ LET scenario_e == analyze_audio_peaks(au_scenario_e, 30 * Sec).val
           IN  /\ Len(scenario_e) = 1
               /\ scenario_e[1].type = "energy"
               /\ scenario_e[1].peak_time = 15 * Sec
        /\ (/\ call.signal_data = au_scenario_e.d["energy"].items
            /\ call.duration = 30 * Sec
            /\ call.threshold = 700000)
           => (Len(PeaksFound) = 1 /\ PeaksFound[1].peak_time = 15 * Sec)

(* an array with a plateau above the threshold and a strict maximum next to
   it: one peak reported, at the strict maximum *)
C13_Witness ==
    /\ Len(returned) = 1
    /\ Len(call.signal_data) = MaxSamples
    /\ \E i \in 0..(Len(call.signal_data) - 2) :
           Sample(i) = Sample(i + 1) /\ Sample(i) > call.threshold
    /\ Len(PeaksFound) = 1

---------------------------------------------------------------------------
(* Ranges of the extracted signals and of the scored candidates (SpecChunk) *)

(* the extraction block returned its three lists *)
Extracted == signals # <<>>

(* C14: every scored segment has a score within [0,1] and a confidence
   within [0,1], whatever the payload values its candidate was generated
   from.  *)
C14_ScoreAndConfidenceWithinUnitInterval ==
    Scored =>
        \A i \in 1..Len(candidates) :
            /\ 0 <= candidates[i].score /\ candidates[i].score <= One
            /\ 0 <= candidates[i].confidence /\ candidates[i].confidence <= One

(* C15: every AudioPeak returned by analyze_audio_peaks, of type energy,
   volume or spectral, has an intensity within [0,1].  *)
C15_AudioPeakIntensityWithinUnitInterval ==
    Extracted =>
        \A i \in 1..Len(signals.audio_peaks) :
            /\ 0 <= signals.audio_peaks[i].intensity.v
            /\ signals.audio_peaks[i].intensity.v <= One

(* C20: an event whose end is less than its start is dropped at extraction:
   no transcription segment, audio peak or vision event handed to candidate
   generation, event clustering and the context bonus has end < start.  *)
C20_ReversedEventsDroppedAtExtraction ==
    Extracted =>
        /\ \A i \in 1..Len(signals.transcription_segments) :
               signals.transcription_segments[i].end >= signals.transcription_segments[i].start
        /\ \A i \in 1..Len(signals.audio_peaks) :
               signals.audio_peaks[i].end >= signals.audio_peaks[i].start
        /\ \A i \in 1..Len(signals.vision_events) :
               signals.vision_events[i].end >= signals.vision_events[i].start

---------------------------------------------------------------------------
(* The job record after the background task has run (Spec) *)

(* the job record of the stream of task i *)
JobOf(i) == processing_jobs[background_tasks[i].request.streamId]

(* C16: a batch with zero chunks yields an empty highlight list and a job
   that ends in status completed, not a failed job.  *)
C16_EmptyBatchCompletesWithNoHighlights ==
    \A i \in 1..Len(background_tasks) :
        (/\ background_tasks[i].pc # "start"
         /\ OnlyTaskOfStream(i)
         /\ Len(background_tasks[i].request.chunks) = 0)
        => /\ JobOf(i).status = "completed"
           /\ JobOf(i).highlights = <<>>
           /\ "error" \notin DOMAIN JobOf(i)

(* the task of a request without chunks has run to its end, and the
   orchestrator received its empty result *)
C16_Witness ==
    \E i \in 1..Len(background_tasks) :
        /\ background_tasks[i].pc = "done"
        /\ OnlyTaskOfStream(i)
        /\ Len(background_tasks[i].request.chunks) = 0
        /\ background_tasks[i].webhook = "sent"
        /\ [streamId |-> background_tasks[i].request.streamId,
            result   |-> [highlights |-> <<>>]] \in webhook_posts

(* the webhook call of task i was made and failed *)
DeliveryFailed(i) ==
    /\ background_tasks[i].pc = "done"
    /\ background_tasks[i].webhook = "failed"

(* C17: when the delivery of the result to the orchestrator webhook fails,
   the job record keeps the status completed and the highlights that were
   computed; it is not turned into a failed job.  *)
C17_WebhookFailureLeavesJobCompleted ==
    \A i \in 1..Len(background_tasks) :
        (DeliveryFailed(i) /\ OnlyTaskOfStream(i))
        => /\ JobOf(i).status = "completed"
           /\ JobOf(i).highlights = background_tasks[i].highlights
           /\ "error" \notin DOMAIN JobOf(i)

(* the delivery of a result with a highlight failed: nothing was posted for
   the stream *)
C17_Witness ==
    \E i \in 1..Len(background_tasks) :
        /\ DeliveryFailed(i)
        /\ OnlyTaskOfStream(i)
        /\ Len(JobOf(i).highlights) > 0
        /\ \A post \in webhook_posts :
               post.streamId # background_tasks[i].request.streamId

---------------------------------------------------------------------------
(* find_event_clusters on a list of events sorted by start *)

MaxEvents == 3

(* an audio peak of 15 seconds, a vision event of 5 seconds or a speech
   segment of 2 seconds, starting at one of four instants *)
EventPool ==
    {[start |-> s, end |-> s + 15 * Sec, type |-> "audio"] : s \in {0, 1 * Sec, 13 * Sec, 16500}}
    \cup {[start |-> s, end |-> s + 5 * Sec, type |-> "vision"] : s \in {0, 1 * Sec, 13 * Sec, 16500}}
    \cup {[start |-> s, end |-> s + 2 * Sec, type |-> "speech"] : s \in {0, 1 * Sec, 13 * Sec, 16500}}

(* the lists create_fusion_segments hands over: sorted by start *)
SortedEventLists ==
    {es \in SeqsUpTo(EventPool, MaxEvents) :
        \A i, j \in 1..Len(es) : i < j => es[i].start <= es[j].start}

InitCluster ==
    /\ config = DefaultConfig
    /\ hash_order = <<"speech", "audio", "vision">>
    /\ ChunkIdle
    /\ call \in {[events |-> es, max_gap |-> 10 * Sec] : es \in SortedEventLists}
    /\ returned = <<>>
    /\ ServiceInit

(* segment_creators.py 179-206 *)
FindClusters ==
    /\ Len(returned) = 0
    /\ returned' = <<find_event_clusters(call.events, call.max_gap)>>
    /\ UNCHANGED <<config, hash_order, call>>
    /\ UNCHANGED <<chunkVars, serviceVars>>

NextCluster == FindClusters

SpecCluster == InitCluster /\ [][NextCluster]_vars

(* the clustering C18 describes: an event joins the current cluster if and
   only if its start minus the maximum end over the events already in the
   cluster is at most max_gap *)
RECURSIVE RunningMaxEndLoop(_, _, _, _, _)
RunningMaxEndLoop(events, max_gap, i, clusters, current) ==
    IF i > Len(events) THEN Append(clusters, current)
    ELSE IF events[i].start - ClusterEnd(current) <= max_gap
    THEN RunningMaxEndLoop(events, max_gap, i + 1, clusters, Append(current, events[i]))
    ELSE RunningMaxEndLoop(events, max_gap, i + 1, Append(clusters, current), <<events[i]>>)

RunningMaxEndClusters(events, max_gap) ==
    IF Len(events) = 0 THEN <<>>
    ELSE RunningMaxEndLoop(events, max_gap, 2, <<>>, <<events[1]>>)

(* C18: the output of find_event_clusters equals that of the clustering by
   the running maximum end, for every list of events sorted by start.  *)
C18_ClustersEqualRunningMaximumEnd ==
    Len(returned) = 1 =>
        returned[1] = RunningMaxEndClusters(call.events, call.max_gap)

---------------------------------------------------------------------------
(* The windows of the audio peaks (SpecChunk) *)

(* the peak carries the window [t - before, t + after] clamped to the chunk *)
HasWindow(peak, t, before, after) ==
    /\ peak.start = Max2(0, t - before)
    /\ peak.end = Min2(chunk.chunkData.duration, t + after)

(* the time at which the peak was detected: peak_time of an energy or volume
   peak, change_time of a spectral one *)
DetectedAt(peak) ==
    IF "peak_time" \in DOMAIN peak THEN peak.peak_time ELSE peak.change_time

(* C21 as amended: every energy and volume peak carries the window
   [peakTime - 5s, peakTime + 10s] clamped to [0, duration]; every spectral
   peak carries the window [changeTime - 3s, changeTime + 7s] clamped to
   [0, duration].  *)
C21_PeakWindowsByType ==
    Extracted =>
        \A i \in 1..Len(signals.audio_peaks) :
            LET peak == signals.audio_peaks[i]
            IN  /\ peak.type \in {"energy", "volume", "spectral"}
                /\ peak.type \in {"energy", "volume"}
                       => HasWindow(peak, peak.peak_time, 5 * Sec, 10 * Sec)
                /\ peak.type = "spectral"
                       => HasWindow(peak, peak.change_time, 3 * Sec, 7 * Sec)

(* a chunk of 12 seconds gave a spectral peak cut at 0 and one cut at the
   end of the chunk *)
C21_Witness ==
    /\ Extracted
    /\ chunk.chunkData.duration = 12 * Sec
    /\ \E i, j \in 1..Len(signals.audio_peaks) :
           /\ signals.audio_peaks[i].type = "spectral"
           /\ signals.audio_peaks[i].start = 0
           /\ signals.audio_peaks[i].change_time < 3 * Sec + 1
           /\ signals.audio_peaks[j].type = "spectral"
           /\ signals.audio_peaks[j].end = 12 * Sec
           /\ signals.audio_peaks[j].change_time + 7 * Sec > 12 * Sec

(* C21: every audio peak, of type energy, volume or spectral, carries the
   window [peakTime - 5s, peakTime + 10s] clamped to [0, duration].  *)
C21_EveryPeakWindowFiveBeforeTenAfter ==
    Extracted =>
        \A i \in 1..Len(signals.audio_peaks) :
            HasWindow(signals.audio_peaks[i], DetectedAt(signals.audio_peaks[i]),
                      5 * Sec, 10 * Sec)

---------------------------------------------------------------------------
(* The candidates of the audio peaks (SpecChunk) *)

AudioCandidates == SelectSeq(candidates, LAMBDA c : StartsWith(c.type, "audio"))

(* one candidate per audio peak *)
OneCandidatePerPeak ==
    pc = "generated" => Len(AudioCandidates) = Len(signals.audio_peaks)

(* the candidate of the k-th peak lasts 15 + 15 x intensity, within [15s, 30s] *)
AudioDurationRule(k) ==
    LET intensity == signals.audio_peaks[k].intensity.v
        d == AudioCandidates[k].duration
    IN  /\ d = 15 * Sec + (intensity * 15) \div (One \div Sec)
        /\ 15 * Sec <= d /\ d <= 30 * Sec

(* the candidate of the k-th peak starts 30% of its duration before the time
   at which the peak was detected, clamped at 0 *)
AudioStartRule(k) ==
    AudioCandidates[k].startTime
        = Max2(0, DetectedAt(signals.audio_peaks[k])
                      - Times(AudioCandidates[k].duration, 3, 10))

(* C22: create_audio_peak_segments emits exactly one candidate per audio
   peak (energy, volume or spectral); the candidate's duration is
   15 + 15 x intensity and lies within [15s, 30s], and its startTime is 30%
   of that duration before the time at which the peak was detected, clamped
   at 0.  *)
C22_OneAudioCandidatePerPeakWithScaledWindow ==
    pc = "generated" =>
        /\ Len(AudioCandidates) = Len(signals.audio_peaks)
        /\ \A k \in 1..Len(AudioCandidates) :
               AudioDurationRule(k) /\ AudioStartRule(k)

---------------------------------------------------------------------------
(* The fusion candidates, cluster by cluster (SpecChunk) *)

Clusters == find_event_clusters(Events, 10 * Sec)

SpanStart(cluster) == Max2(0, ClusterStart(cluster) - 5 * Sec)
SpanEnd(cluster) == Min2(chunk.chunkData.duration, ClusterEnd(cluster) + 8 * Sec)

(* at least 2 events, a span of at least 10 seconds, a fusion score above 0.3 *)
Qualifies(cluster) ==
    /\ Len(cluster) >= 2
    /\ SpanEnd(cluster) - SpanStart(cluster) >= 10 * Sec
    /\ calculate_fusion_score(cluster).val > 300000

(* C23: create_fusion_segments emits, for each cluster, exactly one candidate
   spanning [max(0, min start - 5), min(duration, max end + 8)] if and only
   if the cluster has at least 2 events, that span is at least 10 seconds
   long and the cluster's fusion score exceeds 0.3; a cluster of a single
   event never produces a fusion candidate.  *)
C23_FusionCandidatePerQualifyingCluster ==
    pc = "generated" =>
        LET qualifying == SelectSeq(Clusters, Qualifies)
        IN  /\ Len(FusionCandidates) = Len(qualifying)
            /\ \A k \in 1..Len(qualifying) :
                   /\ Len(qualifying[k]) >= 2
                   /\ FusionCandidates[k].startTime = SpanStart(qualifying[k])
                   /\ FusionCandidates[k].startTime + FusionCandidates[k].duration
                          = SpanEnd(qualifying[k])
                   /\ FusionCandidates[k].source_events = Len(qualifying[k])

(* the chunk gave a cluster that produced a fusion candidate and a cluster of
   a single event, which produced none *)
C23_Witness ==
    /\ pc = "generated"
    /\ Len(FusionCandidates) = 1
    /\ \E a, b \in 1..Len(Clusters) :
           Qualifies(Clusters[a]) /\ Len(Clusters[b]) = 1

---------------------------------------------------------------------------
(* The value of score_highlight_segment (SpecScore) *)

(* 0.30 / 0.25 / 0.20 / 0.40 for speech / audio / vision / fusion *)
BaseOfType(type) ==
    CASE type = "speech_based" -> 300000
      [] type \in {"audio_energy", "audio_volume", "audio_spectral", "audio_peak"} -> 250000
      [] type \in {"vision_scene_change", "vision_motion", "vision_face_detected",
                   "vision_visual"} -> 200000
      [] type = "multi_modal_fusion" -> 400000
      [] OTHER -> 0

(* 0.30 x fusionScore + 0.05 x (number of source modalities), for fusion
   candidates only *)
FusionTerms(segment) ==
    IF segment.type = "multi_modal_fusion"
    THEN Times(segment.fusion_score, 30, 100) + 50000 * Len(segment.source_types)
    ELSE 0

(* the shape factor, in tenths *)
ShapeTenths(segment) ==
    IF segment.duration < 5 * Sec THEN 3
    ELSE IF segment.duration < 10 * Sec THEN 7
    ELSE IF segment.duration > 45 * Sec THEN 8
    ELSE 10

(* the events of a list that overlap the segment *)
Overlapping(segment, events) ==
    {i \in 1..Len(events) :
        /\ segment.startTime < events[i].end
        /\ events[i].start < segment.startTime + segment.duration}

(* sum of f over the set of indices *)
RECURSIVE SumOver(_, _)
SumOver(f, indices) ==
    IF indices = {} THEN 0
    ELSE LET i == CHOOSE i \in indices : TRUE
         IN  f[i] + SumOver(f, indices \ {i})

(* 0.1 per overlapping keyword speech segment, 0.05 x intensity per
   overlapping audio peak, 0.03 x intensity (or confidence) per overlapping
   vision event, capped at 0.3 *)
ContextBonusOf(segment, sig) ==
    LET speech == {i \in Overlapping(segment, sig.transcription_segments) :
                      AnyIn(context_keywords, Lower(sig.transcription_segments[i].text))}
        audio == Overlapping(segment, sig.audio_peaks)
        vision == Overlapping(segment, sig.vision_events)
        total == 100000 * Cardinality(speech)
                 + SumOver([i \in 1..Len(sig.audio_peaks) |->
                              Times(sig.audio_peaks[i].intensity.v, 5, 100)], audio)
                 + SumOver([i \in 1..Len(sig.vision_events) |->
                              Times(EventValue(sig.vision_events[i]).v, 3, 100)], vision)
    IN  Min2(300000, total)

(* C24: score_highlight_segment equals
   min(1, shape x (base + 0.10 x sourceIntensity + 0.15 x sourceExcitement
                   + fusion terms) + contextBonus),
   where base is 0.30/0.25/0.20/0.40 for speech/audio/vision/fusion, the
   fusion terms are 0.30 x fusionScore + 0.05 x (number of source modalities)
   for fusion candidates only, shape is 0.3 if duration < 5, 0.7 if
   duration < 10, 0.8 if duration > 45 and 1 otherwise, and contextBonus is
   capped at 0.3 and is not scaled by shape.  *)
C24_ScoreEqualsShapedSumPlusContextBonus ==
    Len(returned) >= 1 =>
        LET segment == call.segment
            sum == BaseOfType(segment.type)
                   + Times(GetOr(segment, "source_intensity", 0), 10, 100)
                   + Times(GetOr(segment, "source_excitement", 0), 15, 100)
                   + FusionTerms(segment)
        IN  returned[Len(returned)]
                = Min2(One, Times(sum, ShapeTenths(segment), 10)
                            + ContextBonusOf(segment, call.signals))

(* a candidate shorter or longer than the unshaped range was scored below
   the cap of 1.0 with a context bonus above 0 *)
C24_Witness ==
    /\ Len(returned) >= 1
    /\ ShapeTenths(call.segment) # 10
    /\ ContextBonusOf(call.segment, call.signals) > 0
    /\ returned[Len(returned)] < One

---------------------------------------------------------------------------
(* What the selector rejects (SpecSelect) *)

(* the number of places of seq that hold x *)
Occurrences(seq, x) == Cardinality({p \in 1..Len(seq) : seq[p] = x})

(* every copy of candidate i of the input is in the output *)
AllCopiesKept(i) ==
    Occurrences(final_segments, Given[i]) = Occurrences(Given, Given[i])

(* an accepted segment scored at least as high as candidate i overlaps it by
   more than 50% of either duration *)
BlockedByAccepted(i) ==
    \E p \in 1..Len(final_segments) :
        /\ final_segments[p].score >= Given[i].score
        /\ ExceedsHalfOfEither(Given[i], final_segments[p])

(* every rejected candidate is blocked by an accepted one that scores at
   least as high *)
RejectedAreBlocked ==
    \A i \in 1..Len(Given) : AllCopiesKept(i) \/ BlockedByAccepted(i)

(* a highest-scoring candidate of the input is in the output *)
HighestScoredKept ==
    Len(Given) > 0 =>
        \E p \in 1..Len(final_segments) :
            /\ Occurrences(Given, final_segments[p]) >= 1
            /\ \A i \in 1..Len(Given) : final_segments[p].score >= Given[i].score

(* C27 as amended: every candidate that remove_overlapping_segments rejects
   overlaps, by more than 50% of its own or the other's duration, an accepted
   segment whose score is greater than or equal to its own; consequently a
   highest-scoring filtered candidate is always in the output, and the output
   holds candidates of the input only, each at most as often as the input
   holds it, in the order of their startTime (not in the order of the
   input).  *)
C27_RejectedOnlyForOverlapWithHigherAccepted ==
    Returned =>
        /\ RejectedAreBlocked
        /\ HighestScoredKept
        /\ \A p \in 1..Len(final_segments) :
               /\ Occurrences(Given, final_segments[p]) >= 1
               /\ Occurrences(final_segments, final_segments[p])
                      <= Occurrences(Given, final_segments[p])
        /\ \A p, q \in 1..Len(final_segments) :
               p < q => final_segments[p].startTime <= final_segments[q].startTime

(* C27: every candidate that remove_overlapping_segments rejects overlaps, by
   more than 50% of its own or the other's duration, an accepted segment
   whose score is greater than or equal to its own; consequently a
   highest-scoring filtered candidate is always in the output and the output
   is a sub-list of the input: its elements are elements of the input, in
   the order the input has them.  *)
C27_OutputIsSubListOfInput ==
    Returned =>
        /\ RejectedAreBlocked
        /\ HighestScoredKept
        /\ \E f \in [1..Len(final_segments) -> 1..Len(Given)] :
               /\ \A p, q \in 1..Len(final_segments) : p < q => f[p] < f[q]
               /\ \A p \in 1..Len(final_segments) : final_segments[p] = Given[f[p]]

(* of three valid candidates one was rejected for its overlap with a
   higher-scored one, and another one with the lowest score was kept *)
C27_Witness ==
    /\ Returned
    /\ Len(Given) = 3
    /\ Len(final_segments) = 2
    /\ \E i \in 1..3 : ~AllCopiesKept(i) /\ BlockedByAccepted(i)
    /\ \E p, q \in 1..2 : final_segments[p].score < final_segments[q].score

---------------------------------------------------------------------------
(* Overlap resolution and the HIGHLIGHT_THRESHOLD filter, in the order of the
   code and in the opposite order *)

(* scored candidates below, at and above the default threshold of 0.3 *)
ThresholdSegmentPool ==
    {[startTime |-> s, duration |-> d, score |-> sc] :
        s \in {10 * Sec, 16 * Sec},
        d \in {4 * Sec, 8 * Sec, 15 * Sec},
        sc \in {200000, 300000, 600000}}

InitThreshold ==
    /\ config = DefaultConfig
    /\ hash_order = <<"speech", "audio", "vision">>
    /\ chunk = <<>>
    /\ pc = "scored"
    /\ signals = <<>>
    /\ candidates \in SeqsUpTo(ThresholdSegmentPool, MaxCandidates)
    /\ final_segments = <<>>
    /\ CallIdle
    /\ ServiceInit

(* main.py 179-180: the segments of the chunk at or above the threshold *)
Qualify ==
    /\ pc = "returned"
    /\ pc' = "qualified"
    /\ returned' = SelectSeq(final_segments,
                             LAMBDA segment : segment.score >= config.HIGHLIGHT_THRESHOLD)
    /\ UNCHANGED <<config, hash_order, chunk, signals, candidates, final_segments, call>>
    /\ UNCHANGED serviceVars

NextThreshold == Select \/ Qualify

SpecThreshold == InitThreshold /\ [][NextThreshold]_vars

(* the filtered candidates at or above the threshold *)
AboveThreshold ==
    SelectSeq(Given, LAMBDA c : c.score >= config.HIGHLIGHT_THRESHOLD)

(* C26: applying the HIGHLIGHT_THRESHOLD filter before overlap resolution
   gives exactly the same highlights as the order of the code (overlap
   resolution first, threshold afterwards): a candidate whose score is below
   HIGHLIGHT_THRESHOLD never causes a candidate at or above the threshold to
   be rejected.  *)
C26_ThresholdBeforeOverlapGivesSameHighlights ==
    pc = "qualified" =>
        /\ returned = remove_overlapping_segments(AboveThreshold).val
        /\ \A i \in 1..Len(AboveThreshold) :
               Occurrences(returned, AboveThreshold[i])
                   = Occurrences(AboveThreshold, AboveThreshold[i])
               \/ \E p \in 1..Len(returned) :
                      ExceedsHalfOfEither(AboveThreshold[i], returned[p])

(* overlap resolution kept a candidate below the threshold, which the
   threshold filter dropped afterwards, and rejected a candidate at the
   threshold that overlaps both that one and a higher-scored one *)
C26_Witness ==
    /\ pc = "qualified"
    /\ Len(returned) < Len(final_segments)
    /\ Len(AboveThreshold) > Len(returned)
    /\ \E i \in 1..Len(AboveThreshold), p \in 1..Len(final_segments) :
           /\ Occurrences(returned, AboveThreshold[i]) = 0
           /\ final_segments[p].score < config.HIGHLIGHT_THRESHOLD
           /\ ExceedsHalfOfEither(AboveThreshold[i], final_segments[p])

---------------------------------------------------------------------------
(* The windows of the candidates (SpecChunk) *)

(* every extracted event lies within the chunk: 0 <= start < end <= duration *)
EventsWithinChunk ==
    \A i \in 1..Len(Events) :
        /\ 0 <= Events[i].start
        /\ Events[i].start < Events[i].end
        /\ Events[i].end <= chunk.chunkData.duration

(* C28: when every extracted event of a chunk satisfies
   0 <= start < end <= chunk duration, every candidate produced by the four
   generators (speech, audio, vision, fusion) satisfies startTime >= 0,
   duration > 0 and startTime + duration <= chunk duration.  *)
C28_CandidatesWithinChunk ==
    (pc = "generated" /\ EventsWithinChunk) =>
        \A i \in 1..Len(candidates) :
            /\ candidates[i].startTime >= 0
            /\ candidates[i].duration > 0
            /\ candidates[i].startTime + candidates[i].duration <= chunk.chunkData.duration

(* the events lie within the chunk and each of the four generators produced
   a candidate; one candidate starts at 0 and one ends with the chunk *)
C28_Witness ==
    /\ pc = "generated"
    /\ EventsWithinChunk
    /\ \E i \in 1..Len(candidates) : candidates[i].type = "speech_based"
    /\ Len(AudioCandidates) > 0
    /\ \E i \in 1..Len(candidates) : StartsWith(candidates[i].type, "vision")
    /\ Len(FusionCandidates) > 0
    /\ \E i, j \in 1..Len(candidates) :
           /\ candidates[i].startTime = 0
           /\ candidates[j].startTime > 0
           /\ candidates[j].startTime + candidates[j].duration = chunk.chunkData.duration

---------------------------------------------------------------------------
(* The highlights of one chunk, in a batch and alone (SpecBatch) *)

(* the windows, scores and confidence of a list of highlights *)
WindowsAndScores(highlights) ==
    [i \in 1..Len(highlights) |->
        [score    |-> highlights[i].score,
         segments |-> [k \in 1..Len(highlights[i].suggestedSegments) |->
                          [startTime  |-> highlights[i].suggestedSegments[k].startTime,
                           duration   |-> highlights[i].suggestedSegments[k].duration,
                           confidence |-> highlights[i].suggestedSegments[k].confidence]]]]

(* the highlights the call emitted for chunk k of the batch: none when the
   call raised *)
EmittedFor(k) ==
    IF BatchReturned
    THEN SelectSeq(Highlights, LAMBDA h : h.chunkId = call.chunks[k].chunkId)
    ELSE <<>>

(* chunk k scored in a batch of its own *)
ScoredAlone(k) == analyze_and_score_chunks(<<call.chunks[k]>>, config, hash_order)

(* the batch returned the highlights chunk k has when scored alone *)
SameAsAlone(k) ==
    ~Raised(ScoredAlone(k))
        => WindowsAndScores(EmittedFor(k)) = WindowsAndScores(ScoredAlone(k).val)

(* C25: the highlights emitted for a chunk (their windows, scores and
   confidence) depend only on that chunk's own chunkData and the read-only
   configuration: adding, removing or changing other chunks of the batch, or
   scoring the chunks in a different order, does not change them.  *)
C25_ChunkHighlightsIndependentOfOtherChunks ==
    Len(returned) = 1 => \A k \in 1..Len(call.chunks) : SameAsAlone(k)

---------------------------------------------------------------------------
(* The service polled through GET /highlights/{stream_id} *)

InitPoll ==
    /\ config = DefaultConfig
    /\ hash_order = <<"speech", "audio", "vision">>
    /\ ChunkIdle
    /\ CallIdle
    /\ ServiceInit

(* main.py 117-123: 404 for a stream without a record, the record otherwise *)
get_highlights ==
    \E stream_id \in StreamIds :
        /\ call' = [stream_id |-> stream_id]
        /\ returned' = << IF processing_jobs[stream_id] = NoJob
                          THEN [status_code |-> 404, body |-> [detail |-> "Stream not found"]]
                          ELSE [status_code |-> 200, body |-> processing_jobs[stream_id]] >>
        /\ UNCHANGED <<config, hash_order>>
        /\ UNCHANGED <<chunkVars, serviceVars>>

(* the requests sent to the polled service: every batch for one stream, the
   batch of one speech chunk for the other *)
PollRequestPool ==
    {request \in RequestPool :
        request.streamId = "s1" \/ request.chunks = MakeBatch(<<SpeechChunkData>>)}

NextPoll ==
    \/ (score_batch_endpoint
        /\ background_tasks'[Len(background_tasks')].request \in PollRequestPool)
    \/ process_scoring_job
    \/ notify_orchestrator_webhook
    \/ get_highlights

SpecPoll == InitPoll /\ [][NextPoll]_vars

(* the tasks of the requests accepted for the stream, in the order in which
   the requests were accepted *)
TasksOf(stream_id) ==
    SelectSeq(background_tasks, LAMBDA task : task.request.streamId = stream_id)

(* the job status a response shows: "none" for a 404 *)
ObservedStatus(response) ==
    IF response.status_code = 404 THEN "none" ELSE response.body.status

(* two requests were accepted for the stream, both background jobs have
   finished, and the later one computed its highlights *)
BothJobsFinished(stream_id) ==
    /\ Len(TasksOf(stream_id)) = 2
    /\ TasksOf(stream_id)[1].pc = "done"
    /\ TasksOf(stream_id)[2].pc = "done"
    /\ TasksOf(stream_id)[2].webhook # "not_called"

(* C29: when two /score-batch requests for the same streamId are accepted
   and both background jobs have finished, the record stored under that
   streamId (returned by GET /highlights/{stream_id}) holds the highlights
   computed from the later-accepted request, under every interleaving of
   the two requests and their background tasks.  *)
C29_RecordHoldsHighlightsOfLaterRequest ==
    [][get_highlights =>
          \A s \in StreamIds :
              (call'.stream_id = s /\ BothJobsFinished(s))
              => /\ returned'[1].status_code = 200
                 /\ "highlights" \in DOMAIN returned'[1].body
                 /\ returned'[1].body.highlights = TasksOf(s)[2].highlights]_vars

(* the last GET asked for stream_id *)
Polled(stream_id) == call # <<>> /\ call.stream_id = stream_id

(* the place of a status on the path accepted -> processing ->
   (completed | failed); "none" is the 404 of a stream not yet submitted *)
StatusRank(status) ==
    CASE status = "none" -> 0
      [] status = "accepted" -> 1
      [] status = "processing" -> 2
      [] status \in {"completed", "failed"} -> 3

(* from one response to the next the status does not go back, and a
   completed or failed status stays what it is *)
MovesForward(before, after) ==
    /\ StatusRank(ObservedStatus(before)) <= StatusRank(ObservedStatus(after))
    /\ ObservedStatus(before) \in {"completed", "failed"}
           => ObservedStatus(after) = ObservedStatus(before)

(* C30: for a streamId submitted exactly once, the job status observed
   through GET /highlights/{stream_id} only moves forward along
   accepted -> processing -> (completed | failed): it never goes back, a
   completed or failed status never changes afterwards, and a record with
   status completed always carries its highlights list.  *)
C30_ObservedStatusOnlyMovesForward ==
    [][get_highlights =>
          \A s \in StreamIds :
              (call'.stream_id = s /\ Len(TasksOf(s)) <= 1)
              => /\ ObservedStatus(returned'[1])
                        \in {"none", "accepted", "processing", "completed", "failed"}
                 /\ Polled(s) => MovesForward(returned[1], returned'[1])
                 /\ ObservedStatus(returned'[1]) = "completed"
                        => "highlights" \in DOMAIN returned'[1].body]_vars

(* the stream was submitted once, another request was accepted as well, and
   the GET that had shown the job accepted now shows it completed with a
   highlight, after the delivery to the webhook failed *)
C30_Witness ==
    \E s \in StreamIds :
        /\ Polled(s)
        /\ Len(TasksOf(s)) = 1
        /\ Len(background_tasks) = 2
        /\ TasksOf(s)[1].webhook = "failed"
        /\ ObservedStatus(returned[1]) = "completed"
        /\ Len(returned[1].body.highlights) = 1

=============================================================================
